---- MODULE Spec2Model ----
(***************************************************************************)
(* extractFiles of src/src/createUploadLink/UploadLink.ts (lines 243-463)  *)
(* as a state machine.  One call of extractFiles runs on a heap of JS      *)
(* objects: the input containers and the clones the call allocates live in *)
(* the same heap, so aliasing and mutation are visible.  One step of the   *)
(* machine is one invocation of the inner function recurse (or its return).*)
(*                                                                         *)
(* Strings are sequences of one-character strings, so that the path        *)
(* concatenation of the code is computed and can be parsed back.           *)
(*                                                                         *)
(* Four specifications run the same actions: Spec is one call of           *)
(* extractFiles on any arguments; CallsSpec is a caller that calls it        *)
(* several times on one heap; LinkSpec is UploadLink.request (lines 111-238):*)
(* the call on the body of an operation, then delegation or the multipart    *)
(* form and the subscriptions to its Observable; SubscriptionsSpec follows   *)
(* those subscriptions: their fetches, the abort controller of the request,  *)
(* the external abort signal and what the observers receive.  The Observable *)
(* hands nothing to an observer once its subscription is closed, and runs    *)
(* the cleanup function of a subscription when it closes.                    *)
(*                                                                         *)
(* Modelling scope: mapping keys are own enumerable string-keyed data      *)
(* properties; arrays are dense; property reads have no side effects; the  *)
(* classifier is a pure predicate that does not raise.  Accessor           *)
(* properties inherited from Object.prototype are outside the key alphabet.*)
(***************************************************************************)
EXTENDS Integers, Sequences, FiniteSets, TLC

VARIABLES
    heap,      \* the object store: address -> [kind, keys, vals]
    args,      \* the arguments of the call: [argc, value, isExtractable, path]
    pc,        \* "call" | "run" | "done" | "thrown"
    clones,    \* Map<Cloneable, Clone>: input address -> clone address
    files,     \* Map<Extractable, ObjectPath[]> in insertion order
    stack,     \* the open invocations of recurse that are iterating children
    visited,   \* the log of recurse invocations: <<value, path>> in call order
    result,    \* the returned Extraction {clone, files}
    error,     \* the message of the TypeError thrown, or the empty string
    runtime,   \* which of the globals File and Blob the runtime defines
    earlier,   \* what the caller kept of its earlier calls: <<[args, result, clones]>>
    link       \* the request of an UploadLink that made the call: its phase, the
               \* form, the abort controller and the subscriptions to its Observable

vars == <<heap, args, pc, clones, files, stack, visited, result, error, runtime,
          earlier, link>>

-----------------------------------------------------------------------------
(* Bounds *)

\* Most entries (items or properties) of one input container.
MaxLen == 2

-----------------------------------------------------------------------------
(* JS values *)

Ref(a) == [t |-> "ref", v |-> a]
FileV(i) == [t |-> "file", v |-> i]
BlobV(i) == [t |-> "blob", v |-> i]
StringV == [t |-> "string", v |-> 0]
\* The bytes a File was constructed from: the files of the inputs are distinct
\* objects built from the same content; any other value is its own content.
FileContent(v) == IF v.t \in {"file", "blob"} THEN <<"c", "o", "n", "t", "e", "n", "t">> ELSE <<v>>

NullV == [t |-> "null", v |-> 0]
UndefinedV == [t |-> "undefined", v |-> 0]
NumV == [t |-> "number", v |-> 42]

\* Strings as character sequences.
Str(s) == [t |-> "string", s |-> s]
NotStr(t) == [t |-> t, s |-> <<>>]
Dot == <<".">>

Digits == <<"0", "1", "2", "3", "4", "5", "6", "7", "8", "9">>

\* Number-to-string conversion of `pathPrefix + index++`.
RECURSIVE DecStr(_)
DecStr(n) ==
    IF n < 10 THEN <<Digits[n + 1]>>
    ELSE DecStr(n \div 10) \o <<Digits[(n % 10) + 1]>>

-----------------------------------------------------------------------------
(* Heap objects *)

Obj(kind, keys, vals) == [kind |-> kind, keys |-> keys, vals |-> vals]

IsRef(v) == v.t = "ref"

\* Array.isArray(value) || value instanceof FileList
ValueIsList(h, v) == IsRef(v) /\ h[v.v].kind \in {"Array", "FileList"}

\* ValueIsPlainObject as typeof value === 'object'.
ValueIsAnyObject(h, v) == IsRef(v) /\ h[v.v].kind \in {"Object", "NullObject", "Other"}

\* isPlainObject(value): prototype is Object.prototype or null
ValueIsPlainObject(h, v) == IsRef(v) /\ h[v.v].kind \in {"Object", "NullObject"}

\* NewCloneKind constructing an object of the kind of the input.
NewCloneKindOfInput(h, v) == h[v.v].kind

\* The kind of the empty clone created for a container.
NewCloneKind(h, v) ==
    IF ValueIsList(h, v) THEN "Array"
    ELSE IF h[v.v].kind = "Object" THEN "Object"
    ELSE "NullObject"

\* Number of children the loops of recurse iterate over.
NumChildren(o) == Len(o.vals)

\* The path segment of child i (1-based): the index for a list, the key otherwise.
Segment(o, i) ==
    IF o.kind \in {"Array", "FileList"} THEN DecStr(i - 1) ELSE o.keys[i]

\* clone.push(itemClone)
ArrayPush(o, v) == [o EXCEPT !.vals = Append(@, v)]

\* clone[key] = propertyClone
SetProperty(o, k, v) ==
    IF \E i \in 1..Len(o.keys) : o.keys[i] = k
    THEN LET i == CHOOSE j \in 1..Len(o.keys) : o.keys[j] = k
         IN  [o EXCEPT !.vals[i] = v]
    ELSE [o EXCEPT !.keys = Append(@, k), !.vals = Append(@, v)]

-----------------------------------------------------------------------------
(* The classifier *)

\* typeof File !== 'undefined'
TypeofDefined(rt, ctor) == rt[ctor]

\* The values that are instances of a constructor: File extends Blob.
InstancesOf(ctor) == IF ctor = "File" THEN {"file"} ELSE {"file", "blob"}

\* value instanceof ctor: raises where the runtime has no such constructor.
InstanceOf(rt, v, ctor) ==
    IF ~rt[ctor] THEN "raises"
    ELSE IF v.t \in InstancesOf(ctor) THEN "true" ELSE "false"

\* IsExtractableFileIn without the typeof tests.
IsExtractableFileUnguarded(rt, v) ==
    IF InstanceOf(rt, v, "File") # "false" THEN InstanceOf(rt, v, "File")
    ELSE InstanceOf(rt, v, "Blob")

\* (typeof File !== 'undefined' && value instanceof File) ||
\* (typeof Blob !== 'undefined' && value instanceof Blob), evaluated left to
\* right with short circuit; the outcome is "true", "false" or "raises".
IsExtractableFileIn(rt, v) ==
    LET isFile == IF TypeofDefined(rt, "File") THEN InstanceOf(rt, v, "File")
                  ELSE "false"
    IN  IF isFile # "false" THEN isFile
        ELSE IF TypeofDefined(rt, "Blob") THEN InstanceOf(rt, v, "Blob")
        ELSE "false"

\* isExtractableFile(value) in the runtime of the call.
IsExtractableFile(v) == IsExtractableFileIn(runtime, v) = "true"

\* IsExtractable that calls isExtractableFile whatever classifier was passed.
IsExtractableDefaultOnly(fn, v) == IsExtractableFile(v)

\* isExtractable(value) for the classifier passed to the call.
IsExtractable(fn, v) ==
    CASE fn = "isExtractableFile" -> IsExtractableFile(v)
      [] fn = "alwaysFalse" -> FALSE
      [] fn = "isFileOrList" -> IsExtractableFile(v) \/ ValueIsList(heap, v)
      [] OTHER -> FALSE

\* The classifiers callers pass: the default one, one that matches nothing,
\* and one that also matches lists.
IsFunction(fn) == fn \in {"isExtractableFile", "alwaysFalse", "isFileOrList"}

-----------------------------------------------------------------------------
(* The inputs of a call *)

\* Sequences over S of length at most n.
SeqsUpTo(S, n) == UNION {[1..k -> S] : k \in 0..n}

\* Property names, in the enumeration order of for-in.
KeysPlain == <<<<"a">>, <<"b">>, <<"c">>, <<"d">>>>
KeysPlainB == <<<<"b">>, <<"a">>, <<"c">>, <<"d">>>>
KeysDotted == <<<<"a", ".", "b">>, <<"a">>, <<>>, <<"b">>>>
KeysEmpty == <<<<>>, <<"a">>, <<"a", ".", "b">>, <<"b">>>>

Prefix == <<"p", "r", "e", "f", "i", "x">>
RootPrefix == <<"r", "o", "o", "t">>

\* The containers of the given kinds whose properties are named by the first
\* keys of one of the orders and whose entries are drawn from vs.
ContainersOf(kinds, orders, vs) ==
    { Obj(k, IF k \in {"Array", "FileList"} THEN <<>> ELSE SubSeq(o, 1, Len(x)), x) :
        k \in kinds, o \in orders, x \in SeqsUpTo(vs, MaxLen) }

\* An object that is neither a list nor a plain object (a Map, a class
\* instance); it holds a file.
OtherObject == Obj("Other", <<<<"f">>>>, <<FileV(2)>>)

CallWith(v, fn, path) ==
    [argc |-> 3, value |-> v, isExtractable |-> fn, path |-> path]

\* Arrays and plain objects holding each other and two files in every way:
\* sharing, cycles, files at several positions.
ShapeInputs ==
    { [heap |-> <<o1, o2, OtherObject>>,
       args |-> CallWith(Ref(1), "isExtractableFile", Str(<<>>))] :
        o1 \in ContainersOf({"Array", "Object"}, {KeysPlain}, {Ref(1), Ref(2), FileV(1), FileV(2)}),
        o2 \in ContainersOf({"Array", "Object"}, {KeysPlain}, {Ref(1), Ref(2), FileV(1), FileV(2)}) }

\* Every kind of container, property names that are empty or hold a dot,
\* scalars and unrecognised objects, with and without a path prefix, with the
\* default classifier and one that matches nothing.
KindInputs ==
    { [heap |-> <<o1, o2, OtherObject>>, args |-> CallWith(Ref(1), c[1], Str(c[2]))] :
        o1 \in ContainersOf({"Object", "NullObject"}, {KeysDotted, KeysEmpty},
                            {Ref(2), FileV(1), Ref(3)}),
        o2 \in ContainersOf({"Array", "Object", "NullObject"}, {KeysPlainB},
                            {FileV(1), FileV(2), NumV})
               \cup ContainersOf({"FileList"}, {KeysPlain}, {FileV(1), FileV(2)}),
        c \in {<<"isExtractableFile", <<>>>>, <<"isExtractableFile", Prefix>>,
               <<"alwaysFalse", <<>>>>} }

\* The object of the documentation example: { a: file1, b: [file1, file2] }.
ExampleHeap ==
    << Obj("Object", SubSeq(KeysPlain, 1, 2), <<FileV(1), Ref(2)>>),
       Obj("Array", <<>>, <<FileV(1), FileV(2)>>),
       OtherObject >>

\* a = { self: a, f: file1 }, and a list holding a and file2.
CycleExampleHeap ==
    << Obj("Object", <<<<"s", "e", "l", "f">>, <<"f">>>>, <<Ref(1), FileV(1)>>),
       Obj("Array", <<>>, <<Ref(1), FileV(2)>>),
       OtherObject >>

ExampleInputs ==
    { [heap |-> CycleExampleHeap, args |-> CallWith(v, "isExtractableFile", Str(<<>>))] :
        v \in {Ref(1), Ref(2)} }

RootValues == {Ref(1), Ref(2), FileV(1), NumV, NullV, UndefinedV, Ref(3)}

\* Calls with fewer arguments, arguments of a wrong type, and roots that are
\* not containers.
ArgumentInputs ==
    { [heap |-> ExampleHeap, args |-> a] :
        a \in
          { [argc |-> 0, value |-> UndefinedV, isExtractable |-> "undefined",
             path |-> NotStr("undefined")] }
          \cup { [argc |-> 1, value |-> v, isExtractable |-> "undefined",
                  path |-> NotStr("undefined")] : v \in RootValues }
          \cup { [argc |-> 2, value |-> v, isExtractable |-> fn,
                  path |-> NotStr("undefined")] :
                   v \in RootValues,
                   fn \in {"isExtractableFile", "alwaysFalse", "undefined", "object"} }
          \cup { [argc |-> 3, value |-> v, isExtractable |-> fn, path |-> p] :
                   v \in RootValues,
                   fn \in {"isExtractableFile", "alwaysFalse", "isFileOrList",
                           "undefined", "object"},
                   p \in {Str(<<>>), Str(Prefix), Str(RootPrefix), NotStr("undefined"),
                          NotStr("number"), NotStr("object")} } }

Inputs == ShapeInputs \cup KindInputs \cup ArgumentInputs \cup ExampleInputs

\* A runtime that defines both File and Blob (a browser, Node 20).
FullRuntime == [File |-> TRUE, Blob |-> TRUE]

\* Runtimes with and without the globals File and Blob.
Runtimes == [File : BOOLEAN, Blob : BOOLEAN]

\* A list of files, blobs, scalars and a mapping that holds a blob, under the
\* default classifier in every runtime.
RuntimeInputs ==
    { [heap |-> <<o1, Obj("Object", <<<<"a">>>>, <<BlobV(2)>>), OtherObject>>,
       args |-> CallWith(Ref(1), "isExtractableFile", Str(<<>>)),
       runtime |-> rt] :
        o1 \in ContainersOf({"Array"}, {KeysPlain},
                            {FileV(1), BlobV(1), StringV, NumV, NullV, UndefinedV, Ref(2)}),
        rt \in Runtimes }

-----------------------------------------------------------------------------
(* extractFiles: argument checks *)

\* The value of parameter `path` after its default `= ''` is applied.
PathParam(a) == IF a.path.t = "undefined" THEN Str(<<>>) ELSE a.path

\* ArgumentError without the check of argument 3.
ArgumentErrorWithoutPathCheck(a) ==
    IF a.argc = 0 THEN "Argument 1 value is required."
    ELSE IF ~IsFunction(a.isExtractable)
         THEN "Argument 2 isExtractable must be a function."
    ELSE ""

\* The message of the TypeError the argument checks throw (without its
\* backquotes), the empty string if none.
ArgumentError(a) ==
    IF a.argc = 0 THEN "Argument 1 value is required."
    ELSE IF ~IsFunction(a.isExtractable)
         THEN "Argument 2 isExtractable must be a function."
    ELSE IF PathParam(a).t # "string"
         THEN "Argument 3 path must be a string."
    ELSE ""

-----------------------------------------------------------------------------
(* recurse: the pieces of one invocation *)

\* RecordFile with files.set(value, [path]) run for a known file too.
RecordFileOverwriting(fs, v, path) ==
    IF \E i \in 1..Len(fs) : fs[i].file = v
    THEN LET i == CHOOSE j \in 1..Len(fs) : fs[j].file = v
         IN  [fs EXCEPT ![i].paths = <<path>>]
    ELSE Append(fs, [file |-> v, paths |-> <<path>>])

\* RecordFile that keeps only the first path of a file.
RecordFileOnce(fs, v, path) ==
    IF \E i \in 1..Len(fs) : fs[i].file = v THEN fs
    ELSE Append(fs, [file |-> v, paths |-> <<path>>])

\* RecordFile with filePaths.unshift(path).
RecordFilePrepending(fs, v, path) ==
    IF \E i \in 1..Len(fs) : fs[i].file = v
    THEN LET i == CHOOSE j \in 1..Len(fs) : fs[j].file = v
         IN  [fs EXCEPT ![i].paths = <<path>> \o @]
    ELSE Append(fs, [file |-> v, paths |-> <<path>>])

\* RecordFile on a map that finds a key by the content of the file.
RecordFileByContent(fs, v, path) ==
    IF \E i \in 1..Len(fs) : FileContent(fs[i].file) = FileContent(v)
    THEN LET i == CHOOSE j \in 1..Len(fs) : FileContent(fs[j].file) = FileContent(v)
         IN  [fs EXCEPT ![i].paths = Append(@, path)]
    ELSE Append(fs, [file |-> v, paths |-> <<path>>])

\* files.get(value) ? filePaths.push(path) : files.set(value, [path])
RecordFile(fs, v, path) ==
    IF \E i \in 1..Len(fs) : fs[i].file = v
    THEN LET i == CHOOSE j \in 1..Len(fs) : fs[j].file = v
         IN  [fs EXCEPT ![i].paths = Append(@, path)]
    ELSE Append(fs, [file |-> v, paths |-> <<path>>])

\* const uncloned = !clones.get(value)
Uncloned(cl, v) == v.v \notin DOMAIN cl

\* The address of the clone of container v: the memoised one, else a fresh object.
CloneAddr(h, cl, v) == IF Uncloned(cl, v) THEN Len(h) + 1 ELSE cl[v.v]

\* The heap after the clone of v was looked up or created empty.
HeapWithClone(h, cl, v) ==
    IF Uncloned(cl, v) THEN Append(h, Obj(NewCloneKind(h, v), <<>>, <<>>)) ELSE h

\* ClonesWith without clones.set(value, clone).
ClonesWithoutSet(h, cl, v) == cl

\* ClonesWith that registers the clone of a list only.
ClonesWithForListsOnly(h, cl, v) ==
    IF Uncloned(cl, v) /\ ValueIsList(h, v) THEN cl @@ (v.v :> (Len(h) + 1)) ELSE cl

\* clones.set(value, clone) when the clone was created.
ClonesWith(h, cl, v) ==
    IF Uncloned(cl, v) THEN cl @@ (v.v :> (Len(h) + 1)) ELSE cl

\* const pathPrefix = path ? path + '.' : ''
PathPrefix(path) == IF path # <<>> THEN path \o Dot ELSE <<>>

\* RecursedDeeper without .add(value).
RecursedDeeperWithoutAdd(recursed, v) == recursed

\* const recursedDeeper = new Set(recursed).add(value)
RecursedDeeper(recursed, v) == recursed \cup {v.v}

\* StoreChild writing the child's clone over the child in the input container.
StoreChildInPlace(h, frame, ret) ==
    IF ~frame.uncloned THEN h
    ELSE [h EXCEPT ![frame.value].vals[frame.index + 1] = ret]

\* StoreChild without the test `if (uncloned)`.
StoreChildOnEveryVisit(h, frame, ret) ==
    IF h[frame.value].kind \in {"Array", "FileList"}
    THEN [h EXCEPT ![frame.clone] = ArrayPush(@, ret)]
    ELSE [h EXCEPT ![frame.clone] =
              SetProperty(@, Segment(h[frame.value], frame.index + 1), ret)]

\* if (uncloned) clone.push(itemClone)  /  if (uncloned) clone[key] = propertyClone
StoreChild(h, frame, ret) ==
    IF ~frame.uncloned THEN h
    ELSE IF h[frame.value].kind \in {"Array", "FileList"}
         THEN [h EXCEPT ![frame.clone] = ArrayPush(@, ret)]
    ELSE [h EXCEPT ![frame.clone] =
              SetProperty(@, Segment(h[frame.value], frame.index + 1), ret)]

Top == stack[Len(stack)]

\* An invocation of recurse is about to run: the root one, or the next child's.
Pending ==
    /\ pc = "run"
    /\ stack # <<>> => Top.index < NumChildren(heap[Top.value])

CurValue ==
    IF stack = <<>> THEN args.value ELSE heap[Top.value].vals[Top.index + 1]

CurPath ==
    IF stack = <<>> THEN PathParam(args).s
    ELSE Top.pathPrefix \o Segment(heap[Top.value], Top.index + 1)

CurRecursed == IF stack = <<>> THEN {} ELSE Top.recursedDeeper

\* The invocation returns ret to its caller: the loop of the frame on top of
\* stk stores it and moves on, or extractFiles returns {clone, files}.
Deliver(ret, stk, h, fs) ==
    IF stk = <<>>
    THEN /\ pc' = "done"
         /\ result' = [clone |-> ret, files |-> fs]
         /\ stack' = stk
         /\ heap' = h
    ELSE /\ pc' = "run"
         /\ result' = result
         /\ heap' = StoreChild(h, stk[Len(stk)], ret)
         /\ stack' = [stk EXCEPT ![Len(stk)].index = @ + 1]

-----------------------------------------------------------------------------
(* Actions *)

\* extractFiles throws on a bad argument (lines 337-347).
ExtractFilesThrows ==
    /\ pc = "call"
    /\ ArgumentError(args) # ""
    /\ pc' = "thrown"
    /\ error' = ArgumentError(args)
    /\ UNCHANGED <<runtime, earlier, link, heap, args, clones, files, stack, visited, result>>

\* ExtractFilesStarts with the tables kept from one call to the next.
ExtractFilesStartsKeepingTables ==
    /\ pc = "call"
    /\ ArgumentError(args) = ""
    /\ pc' = "run"
    /\ stack' = <<>>
    /\ UNCHANGED <<runtime, earlier, link, heap, args, clones, files, visited, result, error>>

\* extractFiles creates its tables and invokes recurse on the root (349-358, 443).
ExtractFilesStarts ==
    /\ pc = "call"
    /\ ArgumentError(args) = ""
    /\ pc' = "run"
    /\ clones' = <<>>
    /\ files' = <<>>
    /\ stack' = <<>>
    /\ UNCHANGED <<runtime, earlier, link, heap, args, visited, result, error>>

\* recurse on an extractable value: record the path, return null (372-382).
RecurseExtractable ==
    /\ Pending
    /\ IsExtractable(args.isExtractable, CurValue)
    /\ files' = RecordFile(files, CurValue, CurPath)
    /\ visited' = Append(visited, <<CurValue, CurPath>>)
    /\ Deliver(NullV, stack, heap, files')
    /\ UNCHANGED <<runtime, earlier, link, args, clones, error>>

\* recurse on a value that is neither extractable, list nor plain object (439).
RecurseOther ==
    /\ Pending
    /\ ~IsExtractable(args.isExtractable, CurValue)
    /\ ~ValueIsList(heap, CurValue)
    /\ ~ValueIsPlainObject(heap, CurValue)
    /\ visited' = Append(visited, <<CurValue, CurPath>>)
    /\ Deliver(CurValue, stack, heap, files)
    /\ UNCHANGED <<runtime, earlier, link, args, clones, files, error>>

\* RecurseCircular returning null in place of the clone.
RecurseCircularReturnsNull ==
    /\ Pending
    /\ ~IsExtractable(args.isExtractable, CurValue)
    /\ ValueIsList(heap, CurValue) \/ ValueIsPlainObject(heap, CurValue)
    /\ CurValue.v \in CurRecursed
    /\ clones' = ClonesWith(heap, clones, CurValue)
    /\ visited' = Append(visited, <<CurValue, CurPath>>)
    /\ Deliver(NullV, stack, HeapWithClone(heap, clones, CurValue), files)
    /\ UNCHANGED <<runtime, earlier, link, args, files, error>>

\* recurse on a container that is in `recursed`: the clone is looked up (or
\* created) and returned without iterating the children (389-405, 436).
RecurseCircular ==
    /\ Pending
    /\ ~IsExtractable(args.isExtractable, CurValue)
    /\ ValueIsList(heap, CurValue) \/ ValueIsPlainObject(heap, CurValue)
    /\ CurValue.v \in CurRecursed
    /\ clones' = ClonesWith(heap, clones, CurValue)
    /\ visited' = Append(visited, <<CurValue, CurPath>>)
    /\ Deliver(Ref(CloneAddr(heap, clones, CurValue)), stack,
               HeapWithClone(heap, clones, CurValue), files)
    /\ UNCHANGED <<runtime, earlier, link, args, files, error>>

\* RecurseDescend with the test for a list or plain object made before the
\* classifier is asked.
RecurseDescendBeforeClassifier ==
    /\ Pending
    /\ ValueIsList(heap, CurValue) \/ ValueIsPlainObject(heap, CurValue)
    /\ CurValue.v \notin CurRecursed
    /\ clones' = ClonesWith(heap, clones, CurValue)
    /\ heap' = HeapWithClone(heap, clones, CurValue)
    /\ stack' = Append(stack,
                       [value |-> CurValue.v,
                        clone |-> CloneAddr(heap, clones, CurValue),
                        uncloned |-> Uncloned(clones, CurValue),
                        index |-> 0,
                        pathPrefix |-> PathPrefix(CurPath),
                        recursedDeeper |-> RecursedDeeper(CurRecursed, CurValue)])
    /\ visited' = Append(visited, <<CurValue, CurPath>>)
    /\ UNCHANGED <<runtime, earlier, link, args, pc, files, result, error>>

\* RecurseDescend without the test `!recursed.has(value)`.
RecurseDescendIntoOpen ==
    /\ Pending
    /\ ~IsExtractable(args.isExtractable, CurValue)
    /\ ValueIsList(heap, CurValue) \/ ValueIsPlainObject(heap, CurValue)
    /\ clones' = ClonesWith(heap, clones, CurValue)
    /\ heap' = HeapWithClone(heap, clones, CurValue)
    /\ stack' = Append(stack,
                       [value |-> CurValue.v,
                        clone |-> CloneAddr(heap, clones, CurValue),
                        uncloned |-> Uncloned(clones, CurValue),
                        index |-> 0,
                        pathPrefix |-> PathPrefix(CurPath),
                        recursedDeeper |-> RecursedDeeper(CurRecursed, CurValue)])
    /\ visited' = Append(visited, <<CurValue, CurPath>>)
    /\ UNCHANGED <<runtime, earlier, link, args, pc, files, result, error>>

\* recurse on a container that is not in `recursed`: the clone is looked up or
\* created and the loop over the children starts (389-407).
RecurseDescend ==
    /\ Pending
    /\ ~IsExtractable(args.isExtractable, CurValue)
    /\ ValueIsList(heap, CurValue) \/ ValueIsPlainObject(heap, CurValue)
    /\ CurValue.v \notin CurRecursed
    /\ clones' = ClonesWith(heap, clones, CurValue)
    /\ heap' = HeapWithClone(heap, clones, CurValue)
    /\ stack' = Append(stack,
                       [value |-> CurValue.v,
                        clone |-> CloneAddr(heap, clones, CurValue),
                        uncloned |-> Uncloned(clones, CurValue),
                        index |-> 0,
                        pathPrefix |-> PathPrefix(CurPath),
                        recursedDeeper |-> RecursedDeeper(CurRecursed, CurValue)])
    /\ visited' = Append(visited, <<CurValue, CurPath>>)
    /\ UNCHANGED <<runtime, earlier, link, args, pc, files, result, error>>

\* The loop over the children is over: recurse returns the clone (436).
RecurseReturns ==
    /\ pc = "run"
    /\ stack # <<>>
    /\ Top.index >= NumChildren(heap[Top.value])
    /\ Deliver(Ref(Top.clone), SubSeq(stack, 1, Len(stack) - 1), heap, files)
    /\ UNCHANGED <<runtime, earlier, link, args, clones, files, visited, error>>

Next ==
    \/ ExtractFilesThrows
    \/ ExtractFilesStarts
    \/ RecurseExtractable
    \/ RecurseOther
    \/ RecurseCircular
    \/ RecurseDescend
    \/ RecurseReturns

\* What a request finds: whether the runtime defines AbortController, and
\* the signal of the fetch options ("none", or a signal that is "idle" or
\* already "aborted").
DefaultOptions == [AbortController |-> TRUE, signal |-> "none"]

\* The state of a request in the given phase before the Observable is built:
\* no form, no controller, no subscription.
LinkState(phase, options) ==
    [phase |-> phase,
     form |-> <<>>,
     options |-> options,
     \* options.signal as the caller gave it: the external signal
     external |-> [present |-> options.signal # "none",
                   aborted |-> options.signal = "aborted",
                   reason |-> IF options.signal = "aborted" THEN "before" ELSE "",
                   listener |-> FALSE],
     \* the variable `controller` is not null
     controller |-> FALSE,
     \* controller.signal
     signal |-> [aborted |-> FALSE, reason |-> "", listener |-> FALSE],
     \* the function the variable `cleanupController` holds
     cleanupController |-> "basic",
     \* options.signal as fetch is given it
     fetchSignal |-> IF options.signal # "none" THEN "external" ELSE "none",
     \* the subscriptions to the Observable, in the order they were made
     subs |-> <<>>,
     \* the response on the context of the operation: the subscription whose
     \* fetch stored it last, 0 if none
     context |-> 0,
     \* the calls of controller.abort, in order
     abortCalls |-> <<>>,
     \* the last event of the Observable
     last |-> [op |-> "", sub |-> 0]]

\* The call is made directly, not by a link.
NoLink == LinkState("none", DefaultOptions)

Init ==
    /\ \/ \E in \in Inputs : heap = in.heap /\ args = in.args /\ runtime = FullRuntime
       \/ \E in \in RuntimeInputs :
              heap = in.heap /\ args = in.args /\ runtime = in.runtime
    /\ pc = "call"
    /\ clones = <<>>
    /\ files = <<>>
    /\ stack = <<>>
    /\ visited = <<>>
    /\ result = [clone |-> UndefinedV, files |-> <<>>]
    /\ error = ""
    /\ earlier = <<>>
    /\ link = NoLink

Spec == Init /\ [][Next]_vars

-----------------------------------------------------------------------------
(* Several calls: the caller keeps what a call returned and calls again *)

\* Most calls of extractFiles one caller makes.
MaxCalls == 3

\* A mapping and a list that hold each other, two files and a number.
CallInputs ==
    { [heap |-> <<o1, o2, OtherObject>>,
       args |-> CallWith(Ref(1), "isExtractableFile", Str(<<>>))] :
        o1 \in ContainersOf({"Object"}, {KeysPlain}, {Ref(1), Ref(2), FileV(1)}),
        o2 \in ContainersOf({"Array"}, {KeysPlain}, {Ref(1), FileV(2), NumV}) }

\* The caller keeps the Extraction returned and calls extractFiles again, on
\* the same value or on another one.  The heap still holds the clones of the
\* earlier calls.
ExtractFilesCalledAgain ==
    /\ pc = "done"
    /\ Len(earlier) + 1 < MaxCalls
    /\ earlier' = Append(earlier, [args |-> args, result |-> result, clones |-> clones])
    /\ \E v \in {Ref(1), Ref(2)} : args' = [args EXCEPT !.value = v]
    /\ pc' = "call"
    /\ visited' = <<>>
    /\ result' = [clone |-> UndefinedV, files |-> <<>>]
    /\ UNCHANGED <<runtime, link, heap, clones, files, stack, error>>

CallsInit ==
    /\ \E in \in CallInputs : heap = in.heap /\ args = in.args
    /\ runtime = FullRuntime
    /\ pc = "call"
    /\ clones = <<>>
    /\ files = <<>>
    /\ stack = <<>>
    /\ visited = <<>>
    /\ result = [clone |-> UndefinedV, files |-> <<>>]
    /\ error = ""
    /\ earlier = <<>>
    /\ link = NoLink

CallsNext ==
    \/ ExtractFilesStarts
    \/ RecurseExtractable
    \/ RecurseOther
    \/ RecurseCircular
    \/ RecurseDescend
    \/ RecurseReturns
    \/ ExtractFilesCalledAgain

CallsSpec == CallsInit /\ [][CallsNext]_vars

-----------------------------------------------------------------------------
(* UploadLink.request: the call of extractFiles on the body of an operation,
   and what the link does with the Extraction (lines 111-238) *)

\* JSON text of a string; the strings of the model hold no character that
\* JSON.stringify escapes.
JsonString(s) == <<"\"">> \o s \o <<"\"">>

RECURSIVE JoinCommas(_)
JoinCommas(parts) ==
    IF parts = <<>> THEN <<>>
    ELSE IF Len(parts) = 1 THEN parts[1]
    ELSE parts[1] \o <<",">> \o JoinCommas(Tail(parts))

\* JSON.stringify meets an object it is already serialising.
RECURSIVE IsCircular(_, _, _)
IsCircular(h, v, open) ==
    IF ~IsRef(v) THEN FALSE
    ELSE IF v.v \in open THEN TRUE
    ELSE \E i \in 1..Len(h[v.v].vals) : IsCircular(h, h[v.v].vals[i], open \cup {v.v})

\* JSON.stringify(value) for a value that is not circular: an undefined item
\* of a list is written null, an undefined property is left out, a File or
\* Blob (no enumerable own property) is written {}.
RECURSIVE Stringify(_, _)
Stringify(h, v) ==
    CASE v.t = "null" -> <<"n", "u", "l", "l">>
      [] v.t = "number" -> DecStr(v.v)
      [] v.t = "string" -> JsonString(<<"s">>)
      [] v.t \in {"file", "blob"} -> <<"{", "}">>
      [] v.t = "ref" /\ h[v.v].kind \in {"Array", "FileList"} ->
           <<"[">>
           \o JoinCommas([i \in 1..Len(h[v.v].vals) |->
                  IF h[v.v].vals[i].t = "undefined" THEN <<"n", "u", "l", "l">>
                  ELSE Stringify(h, h[v.v].vals[i])])
           \o <<"]">>
      [] v.t = "ref" /\ h[v.v].kind \notin {"Array", "FileList"} ->
           LET defined == SelectSeq([i \in 1..Len(h[v.v].vals) |-> i],
                                    LAMBDA i : h[v.v].vals[i].t # "undefined")
           IN  <<"{">>
               \o JoinCommas([j \in 1..Len(defined) |->
                      JsonString(h[v.v].keys[defined[j]]) \o <<":">>
                      \o Stringify(h, h[v.v].vals[defined[j]])])
               \o <<"}">>
      [] OTHER -> <<>>

\* BuildMap with keys counted from 0 (map[i++] = paths).
BuildMapFromZero(fs) == [i \in 1..Len(fs) |-> [key |-> DecStr(i - 1), paths |-> fs[i].paths]]

\* let i = 0; files.forEach((paths) => { map[++i] = paths; })
BuildMap(fs) == [i \in 1..Len(fs) |-> [key |-> DecStr(i), paths |-> fs[i].paths]]

\* JSON.stringify(map)
StringifyMap(m) ==
    <<"{">>
    \o JoinCommas([i \in 1..Len(m) |->
           JsonString(m[i].key) \o <<":", "[">>
           \o JoinCommas([j \in 1..Len(m[i].paths) |-> JsonString(m[i].paths[j])])
           \o <<"]">>])
    \o <<"}">>

\* form.append(name, text)
FormAppend(form, name, text) ==
    Append(form, [name |-> name, value |-> Str(text), filename |-> <<>>])

\* The name property of a File.
FileName(file) == DecStr(file.v) \o <<".", "t", "x", "t">>

\* formDataAppendFile(form, fieldName, file): with file.name if the file has a
\* name, without a file name otherwise.
FormDataAppendFile(form, fieldName, file) ==
    IF file.t = "file"
    THEN Append(form, [name |-> fieldName, value |-> file, filename |-> FileName(file)])
    ELSE Append(form, [name |-> fieldName, value |-> file, filename |-> <<>>])

\* i = 0; files.forEach((_paths, file) => formDataAppendFile(form, String(++i), file))
RECURSIVE AppendFiles(_, _, _)
AppendFiles(form, fs, i) ==
    IF i >= Len(fs) THEN form
    ELSE AppendFiles(FormDataAppendFile(form, DecStr(i + 1), fs[i + 1].file), fs, i + 1)

\* FormOf appending the file parts before the map part.
FormOfFilesBeforeMap(h, extraction) ==
    FormAppend(
        AppendFiles(
            FormAppend(<<>>, <<"o", "p", "e", "r", "a", "t", "i", "o", "n", "s">>,
                       Stringify(h, extraction.clone)),
            extraction.files, 0),
        <<"m", "a", "p">>, StringifyMap(BuildMap(extraction.files)))

\* The form of the multipart request for an Extraction (lines 161-180).
FormOf(h, extraction) ==
    AppendFiles(
        FormAppend(
            FormAppend(<<>>, <<"o", "p", "e", "r", "a", "t", "i", "o", "n", "s">>,
                       Stringify(h, extraction.clone)),
            <<"m", "a", "p">>, StringifyMap(BuildMap(extraction.files))),
        extraction.files, 0)

\* RequestDelegates whatever the number of files.
RequestDelegatesAlways ==
    /\ pc = "done"
    /\ link.phase = "request"
    /\ link' = [link EXCEPT !.phase = "delegated"]
    /\ UNCHANGED <<runtime, earlier, heap, args, pc, clones, files, stack, visited,
                   result, error>>

\* if (!files.size) return this.httpLink.request(operation, ...) (145-148)
RequestDelegates ==
    /\ pc = "done"
    /\ link.phase = "request"
    /\ result.files = <<>>
    /\ link' = [link EXCEPT !.phase = "delegated"]
    /\ UNCHANGED <<runtime, earlier, heap, args, pc, clones, files, stack, visited,
                   result, error>>

\* Files were found and serializeFetchParameter(clone, 'Payload') raises on a
\* circular clone: request raises with an empty form (161-164).
RequestRaises ==
    /\ pc = "done"
    /\ link.phase = "request"
    /\ result.files # <<>>
    /\ IsCircular(heap, result.clone, {})
    /\ link' = [link EXCEPT !.phase = "raised"]
    /\ UNCHANGED <<runtime, earlier, heap, args, pc, clones, files, stack, visited,
                   result, error>>

\* createAbortController(): null where AbortController is not defined (27-32).
CreateAbortController(options) == options.AbortController

\* cleanupController(), as the variable holds it: `controller = null` (185-187),
\* the function assigned when there is an external signal (196-201), or noop.
CleanupControllerKeepingReference(l) ==
    CASE l.cleanupController = "full" ->
           [l EXCEPT !.signal.listener = FALSE,
                     !.external.listener = FALSE,
                     !.cleanupController = "noop"]
      [] OTHER -> l

CleanupController(l) ==
    CASE l.cleanupController = "basic" -> [l EXCEPT !.controller = FALSE]
      [] l.cleanupController = "full" ->
           [l EXCEPT !.signal.listener = IF l.controller THEN FALSE ELSE @,
                     !.controller = FALSE,
                     !.external.listener = FALSE,
                     !.cleanupController = "noop"]
      [] OTHER -> l

\* controller.abort(reason): the call is logged; a signal that is not aborted
\* yet is aborted with the reason and its 'abort' listener, registered once,
\* is removed and run.
ControllerAbort(l, by, reason) ==
    LET called == [l EXCEPT !.abortCalls = Append(@, [by |-> by, reason |-> reason])]
    IN  IF l.signal.aborted THEN called
        ELSE LET aborted == [called EXCEPT !.signal.aborted = TRUE,
                                           !.signal.reason = reason]
             IN  IF l.signal.listener
                 THEN CleanupController([aborted EXCEPT !.signal.listener = FALSE])
                 ELSE aborted

\* The state of the request when the Observable is returned (184-207): the
\* controller, the listeners on the two signals, the signal of the fetch.
WithController(l) ==
    IF ~CreateAbortController(l.options) THEN l
    ELSE IF l.external.present
         THEN [l EXCEPT !.controller = TRUE,
                        !.external.listener = TRUE,
                        !.cleanupController = "full",
                        !.signal.listener = TRUE,
                        !.fetchSignal = "controller"]
    ELSE [l EXCEPT !.controller = TRUE, !.fetchSignal = "controller"]

\* The cleanup function of a subscription without the call of abort.
TeardownWithoutAbort(l, s) == l

\* The cleanup function of a subscription (232-237).
Teardown(l, s) ==
    IF l.controller THEN ControllerAbort(l, s, "AbortError") ELSE l

\* The signal the fetch of a subscription was given is aborted.
FetchSignalAborted(l) ==
    CASE l.fetchSignal = "controller" -> l.signal.aborted
      [] l.fetchSignal = "external" -> l.external.aborted
      [] OTHER -> FALSE

\* ObserverError reaching a subscriber that is closed.
ObserverErrorWhenClosed(l, s) ==
    Teardown([l EXCEPT !.subs[s].received = Append(@, "error"),
                       !.subs[s].closed = TRUE], s)

\* observer.next(result); observer.complete(): nothing reaches a subscriber
\* that is closed; completion closes it and runs its cleanup function.
ObserverNextComplete(l, s) ==
    IF l.subs[s].closed THEN l
    ELSE Teardown([l EXCEPT !.subs[s].received = @ \o <<"next", "complete">>,
                            !.subs[s].closed = TRUE], s)

\* observer.error(error)
ObserverError(l, s) ==
    IF l.subs[s].closed THEN l
    ELSE Teardown([l EXCEPT !.subs[s].received = Append(@, "error"),
                            !.subs[s].closed = TRUE], s)

\* Files were found: the form is built, set as the body of the fetch options,
\* the controller is set up and the Observable that will fetch is returned
\* (161-209).
RequestReturnsObservable ==
    /\ pc = "done"
    /\ link.phase = "request"
    /\ result.files # <<>>
    /\ ~IsCircular(heap, result.clone, {})
    /\ link' = WithController([link EXCEPT !.phase = "observable",
                                          !.form = FormOf(heap, result)])
    /\ UNCHANGED <<runtime, earlier, heap, args, pc, clones, files, stack, visited,
                   result, error>>

\* Most subscriptions to the Observable of one request.
MaxSubscriptions == 2

\* The Observable is subscribed to: runtimeFetch(uri, options) is called with
\* the form as the body and the signal of the options (209-216).
ObservableSubscribed ==
    /\ link.phase \in {"observable", "fetching"}
    /\ Len(link.subs) < MaxSubscriptions
    /\ link' = [link EXCEPT
                   !.phase = "fetching",
                   !.subs = Append(@, [fetch |-> "pending", closed |-> FALSE,
                                       unsubscribed |-> FALSE,
                                       received |-> <<>>, stored |-> FALSE]),
                   !.last = [op |-> "subscribe", sub |-> Len(link.subs) + 1]]
    /\ UNCHANGED <<runtime, earlier, heap, args, pc, clones, files, stack, visited,
                   result, error>>

\* The bodies of operations: a mapping that holds files, numbers and a second
\* container, which may refer back; the classifier of the link is the default
\* one or an option that matches nothing.
LinkInputs ==
    { [heap |-> <<o1, o2, OtherObject>>, args |-> CallWith(Ref(1), fn, Str(<<>>))] :
        o1 \in ContainersOf({"Object"}, {KeysPlain}, {Ref(2), FileV(1), NumV}),
        o2 \in ContainersOf({"Array", "Object"}, {KeysPlain},
                            {Ref(1), FileV(1), BlobV(2), NullV}),
        fn \in {"isExtractableFile", "alwaysFalse"} }

\* request(operation) has built the body and calls extractFiles(body,
\* customIsExtractableFile, '') (131-142).
LinkInit ==
    /\ \E in \in LinkInputs : heap = in.heap /\ args = in.args
    /\ runtime = FullRuntime
    /\ pc = "call"
    /\ clones = <<>>
    /\ files = <<>>
    /\ stack = <<>>
    /\ visited = <<>>
    /\ result = [clone |-> UndefinedV, files |-> <<>>]
    /\ error = ""
    /\ earlier = <<>>
    /\ link = LinkState("request", DefaultOptions)

LinkNext ==
    \/ ExtractFilesStarts
    \/ RecurseExtractable
    \/ RecurseOther
    \/ RecurseCircular
    \/ RecurseDescend
    \/ RecurseReturns
    \/ RequestDelegates
    \/ RequestRaises
    \/ RequestReturnsObservable
    \/ ObservableSubscribed

LinkSpec == LinkInit /\ [][LinkNext]_vars

-----------------------------------------------------------------------------
(* The Observable of a multipart request: its subscriptions, their fetches
   and the abort signals (lines 184-238) *)

\* The subscriptions made so far.
Subs == 1..Len(link.subs)

\* What only the Observable changes.
LinkOnly == <<runtime, earlier, heap, args, pc, clones, files, stack, visited,
              result, error>>

\* The fetch of subscription s resolves with a response, which is stored on
\* the context of the operation; the response is then read and checked
\* (215-220).  A fetch whose signal is aborted does not resolve.
FetchResponds(s) ==
    /\ link.subs[s].fetch = "pending"
    /\ ~FetchSignalAborted(link)
    /\ link' = [link EXCEPT !.subs[s].fetch = "responded",
                            !.subs[s].stored = TRUE,
                            !.context = s,
                            !.last = [op |-> "respond", sub |-> s]]
    /\ UNCHANGED LinkOnly

\* The response of subscription s passes parseAndCheckHttpResponse: cleanup,
\* then the result and the completion are handed to the observer (221-225).
CheckSucceeds(s) ==
    /\ link.subs[s].fetch = "responded"
    /\ link' = ObserverNextComplete(
                   CleanupController([link EXCEPT !.subs[s].fetch = "settled",
                                                  !.last = [op |-> "result", sub |-> s]]),
                   s)
    /\ UNCHANGED LinkOnly

\* The fetch of subscription s rejects (the network failed, or its signal was
\* aborted), or reading or checking its response fails: cleanup, then the error
\* is handed to the observer (226-229).
FetchFails(s) ==
    /\ link.subs[s].fetch \in {"pending", "responded"}
    /\ link' = ObserverError(
                   CleanupController([link EXCEPT !.subs[s].fetch = "settled",
                                                  !.last = [op |-> "error", sub |-> s]]),
                   s)
    /\ UNCHANGED LinkOnly

\* Subscription s is unsubscribed from: it is closed and its cleanup function
\* runs (232-237).
Unsubscribed(s) ==
    /\ ~link.subs[s].closed
    /\ link' = Teardown([link EXCEPT !.subs[s].closed = TRUE,
                                     !.subs[s].unsubscribed = TRUE,
                                     !.last = [op |-> "unsubscribe", sub |-> s]], s)
    /\ UNCHANGED LinkOnly

\* The reasons the owner of the external signal aborts it with.
Reasons == {"timeout", "navigation"}

\* ExternalSignalAborts with controller.abort() called without the reason.
ExternalSignalAbortsWithoutReason(r) ==
    /\ link.phase \in {"observable", "fetching"}
    /\ link.external.present /\ ~link.external.aborted
    /\ LET aborted == [link EXCEPT !.external.aborted = TRUE,
                                   !.external.reason = r,
                                   !.external.listener = FALSE,
                                   !.last = [op |-> "externalAbort", sub |-> 0]]
       IN  link' = IF link.external.listener /\ link.controller
                   THEN ControllerAbort(aborted, 0, "AbortError")
                   ELSE aborted
    /\ UNCHANGED LinkOnly

\* The external signal is aborted with reason r: its listener, registered
\* once, is removed and calls controller?.abort(externalSignal.reason)
\* (192-195).
ExternalSignalAborts(r) ==
    /\ link.phase \in {"observable", "fetching"}
    /\ link.external.present /\ ~link.external.aborted
    /\ LET aborted == [link EXCEPT !.external.aborted = TRUE,
                                   !.external.reason = r,
                                   !.external.listener = FALSE,
                                   !.last = [op |-> "externalAbort", sub |-> 0]]
       IN  link' = IF link.external.listener /\ link.controller
                   THEN ControllerAbort(aborted, 0, aborted.external.reason)
                   ELSE aborted
    /\ UNCHANGED LinkOnly

\* The runtimes with and without AbortController, the fetch options without
\* a signal, with a signal, and with a signal that is aborted already.
OptionsInputs ==
    [AbortController : BOOLEAN, signal : {"none", "idle", "aborted"}]

\* The bodies of the operations whose Observable is followed: the
\* documentation example, a body that refers to itself, and the example
\* under a classifier that matches nothing.
SubscriptionInputs ==
    { [heap |-> ExampleHeap,
       args |-> CallWith(Ref(1), "isExtractableFile", Str(<<>>))],
      [heap |-> ExampleHeap,
       args |-> CallWith(Ref(1), "alwaysFalse", Str(<<>>))],
      [heap |-> CycleExampleHeap,
       args |-> CallWith(Ref(1), "isExtractableFile", Str(<<>>))] }

SubscriptionsInit ==
    /\ \E in \in SubscriptionInputs : heap = in.heap /\ args = in.args
    /\ \E o \in OptionsInputs : link = LinkState("request", o)
    /\ runtime = FullRuntime
    /\ pc = "call"
    /\ clones = <<>>
    /\ files = <<>>
    /\ stack = <<>>
    /\ visited = <<>>
    /\ result = [clone |-> UndefinedV, files |-> <<>>]
    /\ error = ""
    /\ earlier = <<>>

SubscriptionsNext ==
    \/ LinkNext
    \/ \E s \in Subs : FetchResponds(s)
    \/ \E s \in Subs : CheckSucceeds(s)
    \/ \E s \in Subs : FetchFails(s)
    \/ \E s \in Subs : Unsubscribed(s)
    \/ \E r \in Reasons : ExternalSignalAborts(r)

SubscriptionsSpec == SubscriptionsInit /\ [][SubscriptionsNext]_vars

-----------------------------------------------------------------------------
(* What the claims speak of, stated on the input graph *)

\* The objects of the input: every input heap holds the same addresses.
InputAddrs == DOMAIN ExampleHeap

Done == pc = "done"

\* The classifier of the call accepts v.
Matches(v) == IsExtractable(args.isExtractable, v)

\* v is a list, a file collection or a plain mapping of heap h.
IsListOrMapping(h, v) ==
    v.t = "ref" /\ h[v.v].kind \in {"Array", "FileList", "Object", "NullObject"}

IsListKind(k) == k \in {"Array", "FileList"}

\* The route segment of entry i of object o, as a string.
RouteSegment(o, i) == IF IsListKind(o.kind) THEN DecStr(i - 1) ELSE o.keys[i]

\* A path extended by one segment, '.' between them unless the path is empty.
JoinPath(path, seg) == IF path = <<>> THEN seg ELSE path \o <<".">> \o seg

RootPath == IF args.path.t = "string" THEN args.path.s ELSE <<>>

\* The occurrences of files in depth-first order, entries in ascending order,
\* not descending into a container that is open on the current branch.
RECURSIVE Walk(_, _, _, _), WalkEntries(_, _, _, _, _)
Walk(h, v, path, open) ==
    IF Matches(v) THEN << [file |-> v, path |-> path] >>
    ELSE IF IsListOrMapping(h, v) /\ v.v \notin open
         THEN WalkEntries(h, v.v, path, open \cup {v.v}, 1)
    ELSE <<>>
WalkEntries(h, a, path, open, i) ==
    IF i > Len(h[a].vals) THEN <<>>
    ELSE Walk(h, h[a].vals[i], JoinPath(path, RouteSegment(h[a], i)), open)
         \o WalkEntries(h, a, path, open, i + 1)

Occurrences == Walk(heap, args.value, RootPath, {})

\* The paths of file f among the occurrences, in their order.
RECURSIVE PathsOf(_, _)
PathsOf(occ, f) ==
    IF occ = <<>> THEN <<>>
    ELSE (IF Head(occ).file = f THEN <<Head(occ).path>> ELSE <<>>)
         \o PathsOf(Tail(occ), f)

FirstIndex(occ, f) == CHOOSE i \in 1..Len(occ) :
    occ[i].file = f /\ \A j \in 1..(i - 1) : occ[j].file # f

\* fs is the files map of the occurrences occ: one entry per file, in
\* first-seen order, holding all its paths in order.
IsFilesMapOf(fs, occ) ==
    /\ {fs[i].file : i \in 1..Len(fs)} = {occ[j].file : j \in 1..Len(occ)}
    /\ \A i, j \in 1..Len(fs) : i # j => fs[i].file # fs[j].file
    /\ \A i \in 1..Len(fs) : fs[i].paths = PathsOf(occ, fs[i].file)
    /\ \A i, j \in 1..Len(fs) :
         i < j => FirstIndex(occ, fs[i].file) < FirstIndex(occ, fs[j].file)

\* The containers the traversal enters from the root.
RECURSIVE ReachFrom(_)
ReachFrom(S) ==
    LET T == S \cup { c \in InputAddrs :
                        \E a \in S : \E i \in 1..Len(heap[a].vals) :
                            /\ heap[a].vals[i] = Ref(c)
                            /\ IsListOrMapping(heap, Ref(c))
                            /\ ~Matches(Ref(c)) }
    IN  IF T = S THEN S ELSE ReachFrom(T)

Reached ==
    IF IsListOrMapping(heap, args.value) /\ ~Matches(args.value)
    THEN ReachFrom({args.value.v}) ELSE {}

\* What stands in the clone for input value v: null for a file, the clone of
\* a container, the value itself otherwise.
Image(v) ==
    IF Matches(v) THEN NullV
    ELSE IF IsListOrMapping(heap, v) THEN Ref(clones[v.v])
    ELSE v

\* The clone has the nesting shape of the input, files replaced by null.
SameShape ==
    /\ DOMAIN clones = Reached
    /\ result.clone = Image(args.value)
    /\ \A a, b \in Reached : a # b => clones[a] # clones[b]
    /\ \A a \in Reached :
         LET o == heap[a]
             c == heap[clones[a]]
         IN  /\ clones[a] \notin InputAddrs
             /\ IsListKind(c.kind) = IsListKind(o.kind)
             /\ c.keys = o.keys
             /\ Len(c.vals) = Len(o.vals)
             /\ \A i \in 1..Len(o.vals) : c.vals[i] = Image(o.vals[i])

\* The call of the documentation example with an empty prefix.
IsExampleCall ==
    /\ heap[1] = ExampleHeap[1] /\ heap[2] = ExampleHeap[2]
    /\ args = CallWith(Ref(1), "isExtractableFile", Str(<<>>))

\* clone = { a: null, b: [null, null] }, files = file1 -> ["a", "b.0"], file2 -> ["b.1"]
ExampleResult ==
    /\ result.clone.t = "ref"
    /\ heap[result.clone.v].kind = "Object"
    /\ heap[result.clone.v].keys = <<<<"a">>, <<"b">>>>
    /\ heap[result.clone.v].vals[1] = NullV
    /\ heap[result.clone.v].vals[2].t = "ref"
    /\ heap[heap[result.clone.v].vals[2].v] = Obj("Array", <<>>, <<NullV, NullV>>)
    /\ result.files = << [file |-> FileV(1), paths |-> <<<<"a">>, <<"b", ".", "0">>>>],
                         [file |-> FileV(2), paths |-> <<<<"b", ".", "1">>>>] >>

-----------------------------------------------------------------------------
(* C1: for every input, the returned clone has the nesting shape of the
   input with every file replaced by null, and the files map holds, for each
   file reached, all the paths at which it appeared, in order; for
   { a: file1, b: [file1, file2] } and prefix "" the clone is
   { a: null, b: [null, null] } and files is file1 -> ["a", "b.0"],
   file2 -> ["b.1"]. *)
C1_CloneShapeAndAllPaths ==
    Done =>
        /\ SameShape
        /\ IsFilesMapOf(result.files, Occurrences)
        /\ IsExampleCall => ExampleResult

\* The documentation example has returned.
C1_Witness == Done /\ IsExampleCall /\ Len(result.files) = 2

-----------------------------------------------------------------------------
(* Object paths read back: a path is split at every '.', and its segments
   are followed from the root, an index into a list, a key into a mapping. *)

RECURSIVE SplitPath(_, _)
SplitPath(s, cur) ==
    IF s = <<>> THEN <<cur>>
    ELSE IF Head(s) = "." THEN <<cur>> \o SplitPath(Tail(s), <<>>)
    ELSE SplitPath(Tail(s), Append(cur, Head(s)))

IsPrefixOf(p, s) == Len(p) <= Len(s) /\ SubSeq(s, 1, Len(p)) = p

\* The segments of path below the prefix of the call; <<>> addresses the root,
\* which a path equal to the prefix does when the root itself is a file.
PathSegments(path) ==
    IF path = RootPath /\ Matches(args.value) THEN <<>>
    ELSE IF RootPath = <<>> THEN SplitPath(path, <<>>)
    ELSE IF IsPrefixOf(RootPath \o <<".">>, path)
         THEN SplitPath(SubSeq(path, Len(RootPath) + 2, Len(path)), <<>>)
    ELSE << <<"?">> >>

RootSlot == <<0, 0>>
NoSlot == <<-1, -1>>

ValueAt(h, root, slot) == IF slot = RootSlot THEN root ELSE h[slot[1]].vals[slot[2]]

\* The entries of object o addressed by segment seg.
EntriesAt(o, seg) == { i \in 1..Len(o.vals) : RouteSegment(o, i) = seg }

\* The slot that the segments address from the root, NoSlot if there is none.
RECURSIVE Resolve(_, _, _, _)
Resolve(h, root, slot, segs) ==
    IF segs = <<>> THEN slot
    ELSE LET v == ValueAt(h, root, slot)
         IN  IF v.t = "ref" /\ EntriesAt(h[v.v], Head(segs)) # {}
             THEN Resolve(h, root,
                          <<v.v, CHOOSE i \in EntriesAt(h[v.v], Head(segs)) : TRUE>>,
                          Tail(segs))
             ELSE NoSlot

\* The writes of the inverse reconstruction, in the order of the files map.
RECURSIVE Writes(_)
Writes(fs) ==
    IF fs = <<>> THEN <<>>
    ELSE [i \in 1..Len(Head(fs).paths) |->
              [file |-> Head(fs).file, path |-> Head(fs).paths[i]]]
         \o Writes(Tail(fs))

\* The value of a slot of the clone after every file was written back.
Restored(slot) ==
    LET ws == Writes(result.files)
        hits == { k \in 1..Len(ws) :
                    Resolve(heap, result.clone, RootSlot, PathSegments(ws[k].path)) = slot }
    IN  IF hits = {} THEN ValueAt(heap, result.clone, slot)
        ELSE ws[CHOOSE k \in hits : \A j \in hits : j <= k].file

\* What a deep-equal copy holds where the input holds v.
Copy(v) == IF IsListOrMapping(heap, v) /\ ~Matches(v) THEN Ref(clones[v.v]) ELSE v

\* Every recorded path addresses, in the input, the file it is recorded for.
PathsAddressTheirFile ==
    \A e \in 1..Len(result.files) : \A k \in 1..Len(result.files[e].paths) :
        LET slot == Resolve(heap, args.value, RootSlot,
                            PathSegments(result.files[e].paths[k]))
        IN  slot # NoSlot /\ ValueAt(heap, args.value, slot) = result.files[e].file

\* The clone with the files written back is deep-equal to the input.
RestoredEqualsInput ==
    /\ Restored(RootSlot) = Copy(args.value)
    /\ \A a \in DOMAIN clones : \A i \in 1..Len(heap[a].vals) :
         /\ i <= Len(heap[clones[a]].vals)
         /\ Restored(<<clones[a], i>>) = Copy(heap[a].vals[i])

(* C2: writing each file of the files map back into the clone at every path
   recorded for it yields a structure deep-equal to the input, and every
   recorded path addresses the position the file occupied, for mapping keys
   that are arbitrary strings. *)
C2_InverseReconstruction == Done => PathsAddressTheirFile /\ RestoredEqualsInput

\* Keys that are not empty and hold no '.'.
OrdinaryKeys ==
    \A a \in InputAddrs : \A i \in 1..Len(heap[a].keys) :
        heap[a].keys[i] # <<>> /\ \A j \in 1..Len(heap[a].keys[i]) : heap[a].keys[i][j] # "."

\* The same for keys that are not empty and hold no '.'.
C2_HoldsForOrdinaryKeys ==
    Done /\ OrdinaryKeys => PathsAddressTheirFile /\ RestoredEqualsInput

-----------------------------------------------------------------------------
(* C3: a container reachable at two positions of the input has the same
   clone instance at both positions of the clone; exactly one clone is
   created per input container, however many references there are. *)
C3_SharedContainerSharedClone ==
    /\ pc \in {"run", "done"} =>
         /\ Len(heap) - Cardinality(InputAddrs) = Cardinality(DOMAIN clones)
         /\ \A a, b \in DOMAIN clones : a # b => clones[a] # clones[b]
    /\ Done =>
         \A a, b \in DOMAIN clones :
           \A i \in 1..Len(heap[a].vals) : \A j \in 1..Len(heap[b].vals) :
             /\ heap[a].vals[i] = heap[b].vals[j]
             /\ IsListOrMapping(heap, heap[a].vals[i])
             /\ ~Matches(heap[a].vals[i])
             => /\ heap[clones[a]].vals[i] = heap[clones[b]].vals[j]
                /\ heap[clones[a]].vals[i].t = "ref"
                /\ heap[clones[a]].vals[i].v \notin InputAddrs

\* The root holds the second container twice, and the call has returned.
C3_Witness ==
    /\ Done
    /\ args.value = Ref(1)
    /\ Len(heap[1].vals) = 2
    /\ heap[1].vals[1] = Ref(2) /\ heap[1].vals[2] = Ref(2)
    /\ IsListOrMapping(heap, Ref(1))

-----------------------------------------------------------------------------
(* Termination *)

ValidArguments ==
    /\ args.argc > 0
    /\ IsFunction(args.isExtractable)
    /\ args.path.t \in {"string", "undefined"}

RECURSIVE SumOfPowers(_, _)
SumOfPowers(w, d) == IF d = 0 THEN 1 ELSE 1 + w * SumOfPowers(w, d - 1)

\* No more invocations of recurse than there are routes from the root that
\* enter no container twice: at most MaxLen entries per container, at most as
\* deep as there are containers.
VisitBound ==
    SumOfPowers(MaxLen, Cardinality({a \in InputAddrs : IsListOrMapping(heap, Ref(a))}))

\* The work left: decreases with every step.
Measure ==
    2 * (VisitBound - Len(visited)) + Len(stack) + (IF pc = "call" THEN 1 ELSE 0)

(* C4: for every finite input, with any combination of cycles and shared
   references, extractFiles terminates and returns without raising: a
   running call can always take a step, every step decreases a measure
   that stays a natural number, no container is open twice on the stack,
   and nothing is thrown for valid arguments. *)
C4_TerminatesOnCycles ==
    /\ [](pc = "run" => ENABLED Next)
    /\ [][Measure' < Measure /\ Measure' >= 0]_vars
    /\ [](\A i, j \in 1..Len(stack) : i # j => stack[i].value # stack[j].value)
    /\ [](ValidArguments => pc # "thrown")

\* The two containers hold each other, the first holds itself, and the call
\* has returned.
C4_Witness ==
    /\ Done
    /\ args.value = Ref(1)
    /\ \E i \in 1..Len(heap[1].vals) : heap[1].vals[i] = Ref(2)
    /\ \E i \in 1..Len(heap[1].vals) : heap[1].vals[i] = Ref(1)
    /\ \E i \in 1..Len(heap[2].vals) : heap[2].vals[i] = Ref(1)
    /\ IsListOrMapping(heap, Ref(1)) /\ IsListOrMapping(heap, Ref(2))

-----------------------------------------------------------------------------
\* How often x occurs in sequence q.
Count(q, x) == Cardinality({i \in 1..Len(q) : q[i] = x})

\* The paths recorded for file f, <<>> if it has no entry.
PathsRecorded(fs, f) ==
    IF \E e \in 1..Len(fs) : fs[e].file = f
    THEN fs[CHOOSE e \in 1..Len(fs) : fs[e].file = f].paths
    ELSE <<>>

\* Entries i < j of the root both hold container c, which is not the root
\* and holds a file at entry k.
SharedFromRoot(i, j, c, k) ==
    /\ args.value.t = "ref" /\ IsListOrMapping(heap, args.value) /\ ~Matches(args.value)
    /\ c # args.value.v
    /\ i < j
    /\ {i, j} \subseteq 1..Len(heap[args.value.v].vals)
    /\ heap[args.value.v].vals[i] = Ref(c) /\ heap[args.value.v].vals[j] = Ref(c)
    /\ IsListOrMapping(heap, Ref(c)) /\ ~Matches(Ref(c))
    /\ k \in 1..Len(heap[c].vals)
    /\ Matches(heap[c].vals[k])

\* The path of entry k of the container at entry i of the root.
PathVia(i, c, k) ==
    JoinPath(JoinPath(RootPath, RouteSegment(heap[args.value.v], i)),
             RouteSegment(heap[c], k))

(* C5: when a container holding a file is referenced from two positions
   (sharing, not a cycle), the container is cloned once, and the file below
   it gets one path through the first reference and one path through the
   second, in that order, and as many paths in all as there are routes to
   it. *)
C5_SharedContainerPathsPerRoute ==
    Done =>
      \A c \in InputAddrs : \A i, j \in 1..MaxLen : \A k \in 1..MaxLen :
        SharedFromRoot(i, j, c, k) =>
          LET ps == PathsRecorded(result.files, heap[c].vals[k])
              root == heap[clones[args.value.v]]
          IN  /\ \E m, n \in 1..Len(ps) :
                     m < n /\ ps[m] = PathVia(i, c, k) /\ ps[n] = PathVia(j, c, k)
              /\ Len(ps) = Cardinality({x \in 1..Len(Occurrences) :
                                           Occurrences[x].file = heap[c].vals[k]})
              /\ root.vals[i] = Ref(clones[c]) /\ root.vals[j] = Ref(clones[c])
              /\ Len(heap[clones[c]].vals) = Len(heap[c].vals)
              /\ Len(heap) - Cardinality(InputAddrs) = Cardinality(DOMAIN clones)

\* The root holds twice a container that holds a file; the call has returned.
C5_Witness == Done /\ \E c \in InputAddrs : SharedFromRoot(1, 2, c, 1)

-----------------------------------------------------------------------------
\* One step only appends: entries stay where they are, and the paths of an
\* entry stay a prefix of its later paths.
AppendOnly(fs, gs) ==
    /\ Len(fs) <= Len(gs)
    /\ \A e \in 1..Len(fs) :
         gs[e].file = fs[e].file /\ IsPrefixOf(fs[e].paths, gs[e].paths)

\* The paths of every entry stand in the order in which the traversal meets
\* them, and the entries in the order in which their files are first met.
InTraversalOrder(fs, occ) ==
    /\ \A e \in 1..Len(fs) : \A m, n \in 1..Len(fs[e].paths) :
         m < n => \E k, l \in 1..Len(occ) :
                    /\ k < l
                    /\ occ[k] = [file |-> fs[e].file, path |-> fs[e].paths[m]]
                    /\ occ[l] = [file |-> fs[e].file, path |-> fs[e].paths[n]]
                    /\ Count(PathsOf(SubSeq(occ, 1, k), fs[e].file), fs[e].paths[m])
                         = Count(SubSeq(fs[e].paths, 1, m), fs[e].paths[m])
                    /\ Count(PathsOf(SubSeq(occ, 1, l), fs[e].file), fs[e].paths[n])
                         = Count(SubSeq(fs[e].paths, 1, n), fs[e].paths[n])
    /\ \A d, e \in 1..Len(fs) :
         d < e => FirstIndex(occ, fs[d].file) < FirstIndex(occ, fs[e].file)

(* C6: a file met at path P1 and later at path P2 in traversal order
   (depth-first, list items by ascending index, keys in enumeration order)
   has P1 before P2 in its path list; paths are only ever appended, never
   removed or reordered, and the files map iterates in first-seen order. *)
C6_PathsInTraversalOrder ==
    /\ [][AppendOnly(files, files')]_vars
    /\ [](Done => InTraversalOrder(result.files, Occurrences))

\* A file has two paths, another file was first met between them.
C6_Witness ==
    /\ Done
    /\ Len(result.files) = 2
    /\ Len(result.files[1].paths) = 2
    /\ \E k \in 1..Len(visited) :
         /\ k > 1 /\ k < Len(visited)
         /\ visited[k][1] = result.files[2].file
         /\ \E m \in 1..(k - 1) : visited[m][1] = result.files[1].file
         /\ \E n \in (k + 1)..Len(visited) : visited[n][1] = result.files[1].file

-----------------------------------------------------------------------------
\* The clone is a structural copy of the input in newly allocated containers.
IsFreshCopy ==
    /\ DOMAIN clones = Reached
    /\ result.clone = Copy(args.value)
    /\ \A a \in Reached :
         LET o == heap[a]
             c == heap[clones[a]]
         IN  /\ clones[a] \notin InputAddrs
             /\ IsListKind(c.kind) = IsListKind(o.kind)
             /\ c.keys = o.keys
             /\ Len(c.vals) = Len(o.vals)
             /\ \A i \in 1..Len(o.vals) : c.vals[i] = Copy(o.vals[i])

(* C7: for every input in which the traversal meets no value that satisfies
   the classifier, and for any input when the classifier always returns
   false, the files map is empty and the clone is deep-structurally-equal to
   the input, every list and plain mapping of it newly allocated. *)
C7_NoFilesGivesFreshCopy ==
    Done /\ (Occurrences = <<>> \/ args.isExtractable = "alwaysFalse") =>
        result.files = <<>> /\ IsFreshCopy

\* The classifier always returns false and the root holds a File.
C7_Witness ==
    /\ Done
    /\ args.isExtractable = "alwaysFalse"
    /\ args.value = Ref(1)
    /\ \E i \in 1..Len(heap[1].vals) : heap[1].vals[i] = FileV(1)

-----------------------------------------------------------------------------
(* C8: extractFiles never mutates the input: in every step every object of
   the input keeps its keys, indices and values, files included. *)
C8_InputNeverMutated == [][\A a \in InputAddrs : heap'[a] = heap[a]]_vars

\* The call has returned a clone in which a file was replaced by null, while
\* the input still holds the file.
C8_Witness ==
    /\ Done
    /\ args.value = Ref(1)
    /\ 1 \in DOMAIN clones
    /\ \E i \in 1..Len(heap[1].vals) :
         heap[1].vals[i] = FileV(1) /\ heap[clones[1]].vals[i] = NullV

-----------------------------------------------------------------------------
\* The call violates the argument contract.
BadArguments ==
    \/ args.argc = 0
    \/ ~IsFunction(args.isExtractable)
    \/ args.path.t \notin {"string", "undefined"}

NothingDone ==
    /\ visited = <<>> /\ stack = <<>>
    /\ clones = <<>> /\ files = <<>>
    /\ Len(heap) = Cardinality(InputAddrs)
    /\ result.files = <<>> /\ result.clone = UndefinedV

(* C9: extractFiles fails at once with an argument error, before it creates
   a table or visits a value, if value is omitted (no argument passed), if
   isExtractable is not a function or if path is not a string; an omitted
   path defaults to the empty string and is no error. *)
C9_ArgumentErrors ==
    /\ BadArguments =>
         /\ pc \in {"call", "thrown"}
         /\ NothingDone
         /\ pc = "call" => ENABLED ExtractFilesThrows /\ ~ENABLED ExtractFilesStarts
         /\ pc = "thrown" => error # ""
    /\ ~BadArguments =>
         /\ pc # "thrown" /\ error = ""
         /\ pc = "call" => ENABLED ExtractFilesStarts /\ ~ENABLED ExtractFilesThrows
         /\ args.path.t = "undefined" /\ visited # <<>> => visited[1][2] = <<>>

\* A call whose path is a number has thrown.
C9_Witness == pc = "thrown" /\ args.path.t = "number" /\ args.argc = 3

-----------------------------------------------------------------------------
\* v is neither a file, a list, a file collection nor a plain mapping.
IsUnrecognised(v) == ~Matches(v) /\ ~IsListOrMapping(heap, v)

\* The paths right below path p of object o.
PathsBelow(o, p) == { JoinPath(p, o.keys[i]) : i \in 1..Len(o.keys) }

(* C10: with a callable classifier and a string prefix extractFiles raises
   for no input; a value that is neither a file, a list, a file collection
   nor a plain mapping is returned unchanged, by identity, and is never
   descended into, so that a file inside it is not recorded. *)
C10_UnrecognisedValuesAreLeaves ==
    /\ ValidArguments => pc # "thrown" /\ error = ""
    /\ \A k \in 1..Len(visited) :
         LET v == visited[k][1]
             p == visited[k][2]
         IN  IsUnrecognised(v) /\ v.t = "ref" =>
               /\ v.v \notin DOMAIN clones
               /\ \A f \in 1..Len(stack) : stack[f].value # v.v
               /\ \A m \in 1..Len(visited) : visited[m][2] \notin PathsBelow(heap[v.v], p)
               /\ \A e \in 1..Len(files) : \A n \in 1..Len(files[e].paths) :
                    files[e].paths[n] \notin PathsBelow(heap[v.v], p)
    /\ Done =>
         /\ IsUnrecognised(args.value) => result.clone = args.value /\ result.files = <<>>
         /\ \A a \in DOMAIN clones : \A i \in 1..Len(heap[a].vals) :
              IsUnrecognised(heap[a].vals[i]) =>
                /\ i <= Len(heap[clones[a]].vals)
                /\ heap[clones[a]].vals[i] = heap[a].vals[i]

\* The root holds an object that is no list and no plain mapping and that
\* holds a file; the call has returned and recorded no file.
C10_Witness ==
    /\ Done
    /\ args.value = Ref(1)
    /\ heap[3].kind = "Other" /\ heap[3].vals = <<FileV(2)>>
    /\ \E i \in 1..Len(heap[1].vals) : heap[1].vals[i] = Ref(3)
    /\ result.files = <<>>

-----------------------------------------------------------------------------
\* The current invocation returns ret: extractFiles returns it as the clone,
\* or the loop of the caller appends it to the clone it is building.
ReturnedTo(ret) ==
    IF stack = <<>> THEN pc' = "done" /\ result'.clone = ret
    ELSE /\ pc' = "run"
         /\ Top.uncloned =>
              /\ Len(heap'[Top.clone].vals) = Len(heap[Top.clone].vals) + 1
              /\ heap'[Top.clone].vals[Len(heap'[Top.clone].vals)] = ret

\* The step neither opens nor closes an invocation that iterates children.
SameOpenInvocations ==
    /\ Len(stack') = Len(stack)
    /\ \A f \in 1..Len(stack) : stack'[f].value = stack[f].value

\* gs is fs with path appended to the entry of file v, a new last entry if
\* v had none.
PathAppended(fs, gs, v, path) ==
    IF \E e \in 1..Len(fs) : fs[e].file = v
    THEN /\ Len(gs) = Len(fs)
         /\ \A e \in 1..Len(fs) :
              /\ gs[e].file = fs[e].file
              /\ gs[e].paths = IF fs[e].file = v THEN Append(fs[e].paths, path)
                               ELSE fs[e].paths
    ELSE gs = Append(fs, [file |-> v, paths |-> <<path>>])

(* C11: the classifier is asked before the container test: a value it accepts,
   a list or mapping included, has the current path appended to its entry of
   the files map, is replaced by null and is not descended into (no clone is
   made for it, no invocation is opened); when the root itself is a file and
   the prefix is "root", the clone is null and files has the one entry
   file -> ["root"]. *)
C11_ClassifierBeforeContainerTest ==
    /\ [][Pending /\ Matches(CurValue) =>
            /\ PathAppended(files, files', CurValue, CurPath)
            /\ ReturnedTo(NullV)
            /\ SameOpenInvocations
            /\ clones' = clones
            /\ Len(heap') = Len(heap)]_vars
    /\ [](Done /\ Matches(args.value) /\ RootPath = <<"r", "o", "o", "t">> =>
            /\ result.clone = NullV
            /\ result.files = << [file |-> args.value,
                                  paths |-> << <<"r", "o", "o", "t">> >>] >>)

\* The classifier accepts lists, the root holds a list at its second entry:
\* the list is a key of the files map and null stands for it in the clone.
C11_Witness ==
    /\ Done
    /\ args.isExtractable = "isFileOrList"
    /\ args.value = Ref(1)
    /\ ValueIsList(heap, Ref(2))
    /\ \E e \in 1..Len(result.files) : result.files[e].file = Ref(2)
    /\ heap[clones[1]].vals[2] = NullV

-----------------------------------------------------------------------------
\* The values handed to recurse so far that the classifier accepts.
MatchedSoFar ==
    { visited[k][1] : k \in {j \in 1..Len(visited) : Matches(visited[j][1])} }

\* The paths at which value v was handed to recurse so far, in call order.
RECURSIVE PathsVisited(_, _)
PathsVisited(vs, v) ==
    IF vs = <<>> THEN <<>>
    ELSE (IF Head(vs)[1] = v THEN <<Head(vs)[2]>> ELSE <<>>) \o PathsVisited(Tail(vs), v)

\* v is a value of the input: the root or an entry of an input container.
IsInputValue(v) ==
    \/ v = args.value
    \/ \E a \in InputAddrs : \E i \in 1..Len(heap[a].vals) : heap[a].vals[i] = v

(* C12: the entries of the files map are keyed by file identity: every key
   is a value of the input itself (never a clone), a file met at several
   positions has exactly one entry, which holds all its paths, and two
   distinct files of identical content have two entries. *)
C12_FilesKeyedByIdentity ==
    LET matched == MatchedSoFar
    IN
    /\ \A d, e \in 1..Len(files) : d # e => files[d].file # files[e].file
    /\ {files[e].file : e \in 1..Len(files)} = matched
    /\ \A e \in 1..Len(files) :
         /\ IsInputValue(files[e].file)
         /\ IsRef(files[e].file) =>
              /\ files[e].file.v \in InputAddrs
              /\ \A a \in DOMAIN clones : clones[a] # files[e].file.v
         /\ files[e].paths = PathsVisited(visited, files[e].file)
    /\ \A v, w \in matched :
         v # w /\ FileContent(v) = FileContent(w) =>
           \E d, e \in 1..Len(files) :
               d # e /\ files[d].file = v /\ files[e].file = w
    /\ Done => result.files = files

\* Two files of the same content were met, the first of them twice.
C12_Witness ==
    /\ Done
    /\ Len(result.files) = 2
    /\ result.files[1].file # result.files[2].file
    /\ FileContent(result.files[1].file) = FileContent(result.files[2].file)
    /\ Len(result.files[1].paths) = 2

-----------------------------------------------------------------------------
\* The segments of the route from the root to the value the next invocation
\* of recurse is given: one segment per open invocation.
Route == [f \in 1..Len(stack) |-> Segment(heap[stack[f].value], stack[f].index + 1)]

\* Segments joined with '.'.
RECURSIVE JoinWithDots(_)
JoinWithDots(segs) ==
    IF Len(segs) = 1 THEN segs[1]
    ELSE segs[1] \o <<".">> \o JoinWithDots(Tail(segs))

\* The prefix followed by the segments joined with '.', no separator before
\* the first segment if the prefix is empty.
PrefixedRoute(prefix, segs) ==
    IF segs = <<>> THEN prefix
    ELSE IF prefix = <<>> THEN JoinWithDots(segs)
    ELSE prefix \o <<".">> \o JoinWithDots(segs)

\* The documentation example called with prefix "prefix".
IsPrefixedExampleCall ==
    /\ heap[1] = ExampleHeap[1] /\ heap[2] = ExampleHeap[2]
    /\ args = CallWith(Ref(1), "isExtractableFile", Str(<<"p", "r", "e", "f", "i", "x">>))

\* files = file1 -> ["prefix.a", "prefix.b.0"], file2 -> ["prefix.b.1"]
PrefixedExampleResult ==
    result.files =
      << [file |-> FileV(1),
          paths |-> << <<"p", "r", "e", "f", "i", "x", ".", "a">>,
                       <<"p", "r", "e", "f", "i", "x", ".", "b", ".", "0">> >>],
         [file |-> FileV(2),
          paths |-> << <<"p", "r", "e", "f", "i", "x", ".", "b", ".", "1">> >>] >>

\* The path about to be recorded for a file is the prefix followed by the
\* segments of the route to it joined with '.'.
PathIsPrefixedRoute ==
    Pending /\ Matches(CurValue) => CurPath = PrefixedRoute(RootPath, Route)

(* C13: each recorded path is the caller-supplied prefix followed by the
   segments of the route (list index or mapping key) joined with '.', the
   child path being parent-path + '.' + segment, with no separator before the
   first segment if the prefix is empty: prefix "prefix" gives "prefix.a" and
   "prefix.b.0", prefix "" gives "a" and "b.0". *)
C13_PathIsPrefixAndJoinedRoute ==
    /\ PathIsPrefixedRoute
    /\ \A e \in 1..Len(files) : \A n \in 1..Len(files[e].paths) :
         \E k \in 1..Len(visited) : visited[k] = <<files[e].file, files[e].paths[n]>>
    /\ Done /\ IsPrefixedExampleCall => PrefixedExampleResult
    /\ Done /\ IsExampleCall => ExampleResult

\* No mapping of the input has the empty string as a key.
NoEmptyKey ==
    \A a \in InputAddrs : \A i \in 1..Len(heap[a].keys) : heap[a].keys[i] # <<>>

\* The same for inputs in which no key is the empty string, or which are
\* called with a prefix that is not empty.
C13_HoldsWithoutEmptyKey ==
    NoEmptyKey \/ RootPath # <<>> => C13_PathIsPrefixAndJoinedRoute

-----------------------------------------------------------------------------
\* The next invocation of recurse is given a container that an invocation
\* on the stack is iterating: a back-reference.
AtBackReference ==
    /\ Pending
    /\ ~Matches(CurValue)
    /\ IsListOrMapping(heap, CurValue)
    /\ \E f \in 1..Len(stack) : stack[f].value = CurValue.v

\* The call on a = { self: a, f: file1 } with an empty prefix.
IsCycleExampleCall ==
    /\ heap[1] = CycleExampleHeap[1]
    /\ args = CallWith(Ref(1), "isExtractableFile", Str(<<>>))

(* C18: when recurse is given a container that is open on the current branch,
   it does not descend into it: the step is that one invocation, it opens no
   invocation, records no path, creates no clone and raises nothing, and it
   returns the clone already registered for the container, which the loop of
   the caller stores as it stores any child; no object other than the clone
   the caller is building changes.  No container is open twice on a branch.
   For a = { self: a, f: file } the paths of the file are exactly ["f"]. *)
C18_BackReferenceNotDescended ==
    /\ [][AtBackReference =>
            /\ CurValue.v \in DOMAIN clones
            /\ visited' = Append(visited, <<CurValue, CurPath>>)
            /\ SameOpenInvocations
            /\ files' = files
            /\ clones' = clones
            /\ error' = "" /\ pc' # "thrown"
            /\ Len(heap') = Len(heap)
            /\ \A a \in DOMAIN heap : a # Top.clone => heap'[a] = heap[a]
            /\ IsPrefixOf(heap[Top.clone].vals, heap'[Top.clone].vals)
            /\ ReturnedTo(Ref(clones[CurValue.v]))]_vars
    /\ [](\A f, g \in 1..Len(stack) : f # g => stack[f].value # stack[g].value)
    /\ [](Done /\ IsCycleExampleCall =>
            result.files = << [file |-> FileV(1), paths |-> << <<"f">> >>] >>)

\* The call on a = { self: a, f: file } has returned.
C18_Witness ==
    /\ Done
    /\ IsCycleExampleCall
    /\ Len(visited) = 3
    /\ visited[2] = <<Ref(1), <<"s", "e", "l", "f">>>>

-----------------------------------------------------------------------------
\* The nodes reached from the nodes of S along the edges of E.
RECURSIVE Closure(_, _)
Closure(E, S) ==
    LET T == S \cup { e[2] : e \in {d \in E : d[1] \in S} }
    IN  IF T = S THEN S ELSE Closure(E, T)

\* Node n lies on a cycle of the graph with edges E.
OnCycle(E, n) == n \in Closure(E, { e[2] : e \in {d \in E : d[1] = n} })

\* The references between the containers of the input that were reached.
EdgesAmong(S) ==
    { <<a, b>> \in S \X S :
        \E i \in 1..Len(heap[a].vals) : heap[a].vals[i] = Ref(b) }

InputEdges == EdgesAmong(Reached)

\* The references between the clones.
CloneEdges == EdgesAmong({ clones[a] : a \in DOMAIN clones })

(* C19: the clone of a cyclic input is not truncated: when extractFiles
   returns, every input container reached has a clone with exactly the keys
   and indices of the input container, the clone holds at every position of
   a reference to a container the clone of that container (at a
   back-reference the clone of the ancestor), and the clones lie on cycles
   exactly where the input containers do. *)
C19_CyclicCloneComplete ==
    Done =>
      LET reached == Reached
          inputEdges == EdgesAmong(reached)
          cloneEdges == CloneEdges
      IN  /\ reached \subseteq DOMAIN clones
          /\ \A a \in reached :
               /\ heap[clones[a]].keys = heap[a].keys
               /\ DOMAIN heap[clones[a]].vals = DOMAIN heap[a].vals
               /\ \A i \in 1..Len(heap[a].vals) : \A b \in reached :
                    heap[a].vals[i] = Ref(b) => heap[clones[a]].vals[i] = Ref(clones[b])
          /\ cloneEdges = { <<clones[e[1]], clones[e[2]]>> : e \in inputEdges }
          /\ \A a \in reached :
               OnCycle(inputEdges, a) <=> OnCycle(cloneEdges, clones[a])

\* Two containers hold each other and the first holds itself; the call has
\* returned and the clone of the first holds itself.
C19_Witness ==
    /\ Done
    /\ args.value = Ref(1)
    /\ Reached = {1, 2}
    /\ OnCycle(InputEdges, 2)
    /\ <<1, 1>> \in InputEdges
    /\ <<clones[1], clones[1]>> \in CloneEdges

-----------------------------------------------------------------------------
(* C20: the empty clone of a container is registered in the clone memo
   before any of its children is recursed into and before the container is
   marked open: at every step the open set of every invocation is a subset
   of the keys of the memo, the memo holds the clone each open invocation
   builds, a container that has no clone yet is never found open, and the
   first visit fills the clone with every child, one per child iterated. *)
C20_CloneRegisteredBeforeDescent ==
    /\ \A f \in 1..Len(stack) :
         /\ stack[f].recursedDeeper \subseteq DOMAIN clones
         /\ stack[f].value \in stack[f].recursedDeeper
         /\ clones[stack[f].value] = stack[f].clone
         /\ stack[f].uncloned => Len(heap[stack[f].clone].vals) = stack[f].index
    /\ Pending /\ IsListOrMapping(heap, CurValue) /\ ~Matches(CurValue)
         /\ CurValue.v \notin DOMAIN clones
         => /\ CurValue.v \notin CurRecursed
            /\ \A f \in 1..Len(stack) : stack[f].value # CurValue.v
    /\ \A a \in DOMAIN clones :
         \/ \E f \in 1..Len(stack) : stack[f].value = a /\ stack[f].uncloned
         \/ Len(heap[clones[a]].vals) = Len(heap[a].vals)

\* A container below the root was just entered for the first time: its
\* empty clone is in the memo and no child of it was visited yet.
C20_Witness ==
    /\ pc = "run"
    /\ Len(stack) = 2
    /\ stack[2].uncloned /\ stack[2].index = 0
    /\ NumChildren(heap[stack[2].value]) > 0
    /\ heap[clones[stack[2].value]].vals = <<>>

-----------------------------------------------------------------------------
\* A File, a Blob, null, undefined, a string, a number, and the objects of
\* the heap (lists, plain objects, other objects).
SampleValues ==
    {FileV(1), FileV(2), BlobV(1), BlobV(2), NullV, UndefinedV, StringV, NumV}
    \cup {Ref(a) : a \in InputAddrs}

\* The default classifier is the classifier of the call.
DefaultClassifier == args.isExtractable = "isExtractableFile"

(* C16: isExtractableFile returns true for File instances and for Blob
   instances where the runtime defines the constructor, false for every
   other value (null, undefined, strings, numbers, plain objects, arrays),
   and false, without raising, for every value when the runtime defines
   neither File nor Blob; it raises in no runtime.  extractFiles with this
   classifier records exactly the values it returns true for. *)
C16_DefaultClassifier ==
    /\ \A v \in SampleValues :
         LET out == IsExtractableFileIn(runtime, v)
         IN  /\ out \in {"true", "false"}
             /\ runtime.File /\ v.t = "file" => out = "true"
             /\ runtime.Blob /\ v.t \in {"file", "blob"} => out = "true"
             /\ v.t \notin {"file", "blob"} => out = "false"
             /\ ~runtime.File /\ ~runtime.Blob => out = "false"
             /\ runtime = FullRuntime => (out = "true" <=> v.t \in {"file", "blob"})
    /\ DefaultClassifier =>
         /\ \A k \in 1..Len(visited) :
              (\E e \in 1..Len(files) : files[e].file = visited[k][1])
              <=> \/ visited[k][1].t = "file" /\ (runtime.File \/ runtime.Blob)
                  \/ visited[k][1].t = "blob" /\ runtime.Blob
         /\ ~runtime.File /\ ~runtime.Blob => files = <<>> /\ pc # "thrown"

\* The runtime defines neither File nor Blob; the list held a File and a
\* Blob, nothing was recorded and the clone holds both as they were.
C16_Witness ==
    /\ Done
    /\ DefaultClassifier
    /\ ~runtime.File /\ ~runtime.Blob
    /\ heap[1].vals = <<FileV(1), BlobV(1)>>
    /\ result.files = <<>>
    /\ heap[clones[1]].vals = <<FileV(1), BlobV(1)>>

-----------------------------------------------------------------------------
\* The clone objects of a memo.
ClonesOf(cl) == { cl[a] : a \in DOMAIN cl }

\* Value v of the clone graph of memo cl1 and value w of that of memo cl2
\* stand for each other: clones of the same container, or the same value.
Corresponds(cl1, v, cl2, w) ==
    IF IsRef(v) /\ v.v \in ClonesOf(cl1)
    THEN IsRef(w) /\ \E a \in DOMAIN cl1 \cap DOMAIN cl2 : cl1[a] = v.v /\ cl2[a] = w.v
    ELSE v = w

\* Two calls returned structurally equal clones.
StructurallyEqual(cl1, r1, cl2, r2) ==
    /\ DOMAIN cl1 = DOMAIN cl2
    /\ Corresponds(cl1, r1.clone, cl2, r2.clone)
    /\ \A a \in DOMAIN cl1 :
         /\ heap[cl1[a]].kind = heap[cl2[a]].kind
         /\ heap[cl1[a]].keys = heap[cl2[a]].keys
         /\ Len(heap[cl1[a]].vals) = Len(heap[cl2[a]].vals)
         /\ \A i \in 1..Len(heap[cl1[a]].vals) :
              Corresponds(cl1, heap[cl1[a]].vals[i], cl2, heap[cl2[a]].vals[i])

\* The calls made so far that have returned.
Returned ==
    IF Done THEN Append(earlier, [args |-> args, result |-> result, clones |-> clones])
    ELSE earlier

(* C17: no state is retained between calls of extractFiles: each call starts
   with an empty clone memo and an empty files map, so whatever was called
   before, two calls on the same input return equal files maps and
   structurally equal clones, the clone containers of one call are never
   those of another call nor objects of the input, and a later call changes
   no clone of an earlier one. *)
C17_NoStateBetweenCalls ==
    /\ [](\A m, n \in 1..Len(Returned) :
            LET c == Returned[m]
                d == Returned[n]
            IN  /\ m # n => ClonesOf(c.clones) \cap ClonesOf(d.clones) = {}
                /\ ClonesOf(c.clones) \cap InputAddrs = {}
                /\ c.args = d.args =>
                     /\ c.result.files = d.result.files
                     /\ StructurallyEqual(c.clones, c.result, d.clones, d.result))
    /\ [](pc = "run" =>
            /\ \A a \in DOMAIN clones : \E k \in 1..Len(visited) : visited[k][1] = Ref(a)
            /\ \A e \in 1..Len(files) : \E k \in 1..Len(visited) :
                  visited[k][1] = files[e].file)
    /\ [](Done => SameShape /\ IsFilesMapOf(result.files, Occurrences))
    /\ [][\A n \in 1..Len(earlier) : \A x \in ClonesOf(earlier[n].clones) :
              heap'[x] = heap[x]]_vars

\* Three calls have returned: the first and the third on the same value, the
\* second on another one; files were found and containers were cloned.
C17_Witness ==
    /\ Done
    /\ Len(earlier) = 2
    /\ earlier[1].args = args
    /\ earlier[2].args # args
    /\ Len(result.files) = 2
    /\ Cardinality(DOMAIN clones) = 2

-----------------------------------------------------------------------------
(* JSON text read back *)

\* A JSON value: null, a number, a list of values, a mapping of keys to values.
Json(t, n, keys, items) == [t |-> t, n |-> n, keys |-> keys, items |-> items]
JsonNull == Json("null", 0, <<>>, <<>>)

DigitValue(ch) == CHOOSE d \in 0..9 : Digits[d + 1] = ch
IsDigit(ch) == \E d \in 0..9 : Digits[d + 1] = ch

\* The text up to the next quote, and the text after that quote.
RECURSIVE ReadToQuote(_, _)
ReadToQuote(s, cur) ==
    IF Head(s) = "\"" THEN [text |-> cur, rest |-> Tail(s)]
    ELSE ReadToQuote(Tail(s), Append(cur, Head(s)))

RECURSIVE ReadNumber(_, _)
ReadNumber(s, n) ==
    IF s # <<>> /\ IsDigit(Head(s)) THEN ReadNumber(Tail(s), 10 * n + DigitValue(Head(s)))
    ELSE [val |-> Json("number", n, <<>>, <<>>), rest |-> s]

\* The JSON value at the start of text s, and the text after it.
RECURSIVE ReadValue(_), ReadItems(_, _), ReadMembers(_, _, _)
ReadValue(s) ==
    IF Head(s) = "n" THEN [val |-> JsonNull, rest |-> SubSeq(s, 5, Len(s))]
    ELSE IF Head(s) = "[" THEN
        IF s[2] = "]" THEN [val |-> Json("list", 0, <<>>, <<>>), rest |-> SubSeq(s, 3, Len(s))]
        ELSE ReadItems(Tail(s), <<>>)
    ELSE IF Head(s) = "{" THEN
        IF s[2] = "}" THEN [val |-> Json("map", 0, <<>>, <<>>), rest |-> SubSeq(s, 3, Len(s))]
        ELSE ReadMembers(Tail(s), <<>>, <<>>)
    ELSE ReadNumber(s, 0)
ReadItems(s, acc) ==
    LET r == ReadValue(s)
    IN  IF Head(r.rest) = ","
        THEN ReadItems(Tail(r.rest), Append(acc, r.val))
        ELSE [val |-> Json("list", 0, <<>>, Append(acc, r.val)), rest |-> Tail(r.rest)]
ReadMembers(s, ks, vs) ==
    LET k == ReadToQuote(Tail(s), <<>>)
        r == ReadValue(Tail(k.rest))
    IN  IF Head(r.rest) = ","
        THEN ReadMembers(Tail(r.rest), Append(ks, k.text), Append(vs, r.val))
        ELSE [val |-> Json("map", 0, Append(ks, k.text), Append(vs, r.val)),
              rest |-> Tail(r.rest)]

\* The text between the quotes of s and the text around them, in order: the
\* odd entries stand outside quotes, the even ones inside.
RECURSIVE SplitAtQuotes(_, _)
SplitAtQuotes(s, cur) ==
    IF s = <<>> THEN <<cur>>
    ELSE IF Head(s) = "\"" THEN <<cur>> \o SplitAtQuotes(Tail(s), <<>>)
    ELSE SplitAtQuotes(Tail(s), Append(cur, Head(s)))

\* The entries of a map part: a quoted text followed by :[ is a key, every
\* other quoted text is a path of the last key.
RECURSIVE ReadMap(_, _, _)
ReadMap(toks, i, acc) ==
    IF i > Len(toks) THEN acc
    ELSE IF toks[i + 1] = <<":", "[">>
         THEN ReadMap(toks, i + 2, Append(acc, [key |-> toks[i], paths |-> <<>>]))
    ELSE ReadMap(toks, i + 2, [acc EXCEPT ![Len(acc)].paths = Append(@, toks[i])])

\* The JSON data that stands for value v of heap h: a File or Blob that is
\* still in the structure has no data of its own.
RECURSIVE JsonOf(_, _)
JsonOf(h, v) ==
    IF v.t = "null" THEN JsonNull
    ELSE IF v.t = "number" THEN Json("number", v.v, <<>>, <<>>)
    ELSE IF v.t \in {"file", "blob"} THEN Json("map", 0, <<>>, <<>>)
    ELSE IF IsListKind(h[v.v].kind)
         THEN Json("list", 0, <<>>, [i \in 1..Len(h[v.v].vals) |-> JsonOf(h, h[v.v].vals[i])])
    ELSE Json("map", 0, h[v.v].keys, [i \in 1..Len(h[v.v].vals) |-> JsonOf(h, h[v.v].vals[i])])

\* The link has returned the Observable of a multipart request.
Multipart == link.phase \in {"observable", "fetching"}

(* C14: for a multipart request, the map part has exactly the keys 1..n, n
   the number of entries of the files map, key i holding the path list of
   the i-th entry in iteration order; the file of that i-th entry is the body
   part whose field name is the string i; the operations part is the JSON
   serialization of the clone. *)
C14_MapKeysAndFileParts ==
    Multipart =>
      LET n == Len(result.files)
          operations == ReadValue(link.form[1].value.s)
      IN  /\ n > 0
          /\ Len(link.form) = n + 2
          /\ link.form[1].name = <<"o", "p", "e", "r", "a", "t", "i", "o", "n", "s">>
          /\ operations.rest = <<>>
          /\ operations.val = JsonOf(heap, result.clone)
          /\ link.form[2].name = <<"m", "a", "p">>
          /\ ReadMap(SplitAtQuotes(link.form[2].value.s, <<>>), 2, <<>>)
               = [i \in 1..n |-> [key |-> DecStr(i), paths |-> result.files[i].paths]]
          /\ \A i \in 1..n :
               /\ link.form[2 + i].name = DecStr(i)
               /\ link.form[2 + i].value = result.files[i].file
          /\ \A i, j \in 1..n : i # j => link.form[2 + i].value # link.form[2 + j].value

\* A multipart request with two files, the first of them at two paths.
C14_Witness ==
    /\ Multipart
    /\ Len(result.files) = 2
    /\ Len(result.files[1].paths) = 2
    /\ Len(link.form) = 4

-----------------------------------------------------------------------------
\* request has returned or raised.
RequestOver == link.phase \in {"delegated", "raised", "observable", "fetching"}

(* C15 as claimed: for every operation the link sends a multipart request
   built by itself if and only if extraction of the body found at least one
   file; when no file is found it builds no form and issues no fetch of its
   own, and returns what the wrapped HTTP link returns for the operation. *)
C15_MultipartIffFileFound ==
    RequestOver =>
      /\ Multipart <=> result.files # <<>>
      /\ result.files = <<>> => link.phase = "delegated" /\ link.form = <<>>

(* C15 amended: the link builds and sends a multipart request if and only
   if extraction found at least one file and the clone can be serialised;
   when a file is found in a body whose clone is circular, request raises
   with nothing sent and nothing delegated; when no file is found it builds
   no form, issues no fetch of its own and delegates to the wrapped HTTP
   link.  The choice is made only after extractFiles has returned. *)
C15_MultipartIffFileFoundAndSerializable ==
    /\ link.phase # "request" => Done
    /\ RequestOver =>
         /\ Multipart <=> result.files # <<>> /\ ~IsCircular(heap, result.clone, {})
         /\ link.phase = "raised" <=> result.files # <<>> /\ IsCircular(heap, result.clone, {})
         /\ link.phase = "delegated" <=> result.files = <<>>
         /\ ~Multipart => link.form = <<>>
         /\ Multipart => link.form # <<>>

\* The body holds a file, and no file was found by the classifier of the
\* link: the operation was delegated.
C15_Witness ==
    /\ link.phase = "delegated"
    /\ args.isExtractable = "alwaysFalse"
    /\ \E i \in 1..Len(heap[1].vals) : heap[1].vals[i] = FileV(1)

-----------------------------------------------------------------------------
\* Object p is object o with one more entry at the end, the others kept.
OneEntryAppended(o, p) ==
    /\ p.kind = o.kind
    /\ Len(p.vals) = Len(o.vals) + 1
    /\ SubSeq(p.vals, 1, Len(o.vals)) = o.vals
    /\ IF IsListKind(o.kind) THEN p.keys = o.keys
       ELSE Len(p.keys) = Len(o.keys) + 1 /\ SubSeq(p.keys, 1, Len(o.keys)) = o.keys

\* The invocations of recurse that are iterating the children of container a.
OpenFrames(a) == {k \in 1..Len(stack) : stack[k].value = a}

\* The clone of a is as far as the first visit of a has come: one entry per
\* child iterated while that visit is open, every entry afterwards.
CloneFilledByFirstVisit(a) ==
    LET c == heap[clones[a]]
        first == {k \in OpenFrames(a) : stack[k].uncloned}
    IN  /\ Cardinality(OpenFrames(a)) <= 1
        /\ \A k \in first :
             /\ stack[k].clone = clones[a]
             /\ Len(c.vals) = stack[k].index
        /\ first = {} => Len(c.vals) = Len(heap[a].vals)
        /\ Len(c.vals) <= Len(heap[a].vals)
        /\ IsListKind(c.kind) => c.keys = <<>>
        /\ ~IsListKind(c.kind) => c.keys = SubSeq(heap[a].keys, 1, Len(c.vals))

(* C21: child clones are inserted into the clone of a container only on the
   first visit of that container: a step changes an existing clone only by
   storing one more entry for the open first visit, a later visit descends
   again (recording paths) and leaves the clone as it is, and a cloned list
   has the length of its input list once its first visit is over, with no
   entry duplicated or overwritten. *)
C21_ChildrenInsertedOnFirstVisitOnly ==
    /\ [][\A a \in DOMAIN clones :
            heap'[clones[a]] # heap[clones[a]] =>
              /\ stack' # <<>>
              /\ stack'[Len(stack')].value = a
              /\ stack'[Len(stack')].uncloned
              /\ stack'[Len(stack')].index = Len(heap'[clones[a]].vals)
              /\ OneEntryAppended(heap[clones[a]], heap'[clones[a]])]_vars
    /\ [](pc \in {"run", "done"} => \A a \in DOMAIN clones : CloneFilledByFirstVisit(a))
    /\ [](\A k \in 1..Len(stack) :
            ~stack[k].uncloned =>
               Len(heap[stack[k].clone].vals) = Len(heap[stack[k].value].vals))

\* The root holds the same list of two files twice; the list was descended
\* twice and its clone holds two entries.
C21_Witness ==
    /\ Done
    /\ args.value = Ref(1)
    /\ heap[1].vals = <<Ref(2), Ref(2)>>
    /\ heap[2].kind = "Array"
    /\ Len(heap[2].vals) = 2
    /\ Len(result.files) = 2
    /\ Len(result.files[1].paths) = 2
    /\ Len(heap[clones[2]].vals) = 2

-----------------------------------------------------------------------------
\* The invocations of recurse in call order, each with the route from the
\* root (the segments, not joined), the path string it is given and its value.
RECURSIVE Invocations(_, _, _, _, _), InvocationsBelow(_, _, _, _, _, _)
Invocations(h, v, route, path, open) ==
    << [route |-> route, path |-> path, value |-> v] >>
    \o (IF ~Matches(v) /\ IsListOrMapping(h, v) /\ v.v \notin open
        THEN InvocationsBelow(h, v.v, route, PathPrefix(path), open \cup {v.v}, 1)
        ELSE <<>>)
InvocationsBelow(h, a, route, pathPrefix, open, i) ==
    IF i > NumChildren(h[a]) THEN <<>>
    ELSE Invocations(h, h[a].vals[i], Append(route, Segment(h[a], i)),
                     pathPrefix \o Segment(h[a], i), open)
         \o InvocationsBelow(h, a, route, pathPrefix, open, i + 1)

AllInvocations == Invocations(heap, args.value, <<>>, RootPath, {})

\* No path stands twice in one list, and none in the lists of two files.
NoPathTwice(fs) ==
    /\ \A e \in 1..Len(fs) : \A m, n \in 1..Len(fs[e].paths) :
         m # n => fs[e].paths[m] # fs[e].paths[n]
    /\ \A d, e \in 1..Len(fs) : \A m \in 1..Len(fs[d].paths) :
         \A n \in 1..Len(fs[e].paths) :
           d # e => fs[d].paths[m] # fs[e].paths[n]

\* Invocations on different routes are given different path strings.
RoutesHaveDistinctPaths ==
    LET inv == AllInvocations
    IN  /\ visited = [k \in 1..Len(inv) |-> <<inv[k].value, inv[k].path>>]
        /\ \A j, k \in 1..Len(inv) :
             inv[j].route # inv[k].route => inv[j].path # inv[k].path

(* C22: two different routes from the root (different sequences of index or
   key segments, keys being arbitrary strings, the empty string and strings
   holding '.' included) never give the same path string; so no path list
   holds a path twice and no path stands in the lists of two files. *)
C22_DistinctRoutesDistinctPaths ==
    Done => RoutesHaveDistinctPaths /\ NoPathTwice(result.files)

\* The same for inputs whose keys are not empty and hold no '.'.
C22_HoldsForOrdinaryKeys ==
    OrdinaryKeys => C22_DistinctRoutesDistinctPaths

-----------------------------------------------------------------------------
(* C23: a list and a file collection are both cloned as a new ordered list,
   and a plain mapping as a new mapping (an Object instance as an Object, a
   mapping without prototype as one without prototype): the clone of a
   container is of the kind matching the input container, is a new object,
   and is never a file collection. *)
C23_CloneKindMatchesInput ==
    \A a \in DOMAIN clones :
        LET o == heap[a]
            c == heap[clones[a]]
        IN  /\ clones[a] \notin InputAddrs
            /\ \A b \in DOMAIN clones : clones[b] # a
            /\ o.kind \in {"Array", "FileList", "Object", "NullObject"}
            /\ o.kind \in {"Array", "FileList"} => c.kind = "Array" /\ c.keys = <<>>
            /\ o.kind = "Object" => c.kind = "Object"
            /\ o.kind = "NullObject" => c.kind = "NullObject"
            /\ c.kind # "FileList"
            /\ IsListKind(c.kind) = IsListKind(o.kind)

\* A file collection of two files below a mapping without prototype was
\* cloned: the clones are a list of two nulls and a mapping without prototype.
C23_Witness ==
    /\ Done
    /\ args.value = Ref(1)
    /\ heap[1].kind = "NullObject"
    /\ heap[2].kind = "FileList"
    /\ Len(heap[2].vals) = 2
    /\ 2 \in DOMAIN clones
    /\ heap[clones[2]] = Obj("Array", <<>>, <<NullV, NullV>>)
    /\ heap[clones[1]].kind = "NullObject"

-----------------------------------------------------------------------------
\* The positions of the parts of the form, in the order they were appended,
\* whose field name is name.
PartsNamed(form, name) == {i \in 1..Len(form) : form[i].name = name}

\* The positions of the parts of the form that hold a File or a Blob.
FileParts(form) == {i \in 1..Len(form) : form[i].value.t \in {"file", "blob"}}

(* C24: in a multipart request the parts of the form were appended in this
   order: first 'operations', then 'map', then the file parts with field
   names 1..n ascending; no file part stands before the map part. *)
C24_FormPartsInOrder ==
    Multipart =>
      /\ PartsNamed(link.form, <<"o", "p", "e", "r", "a", "t", "i", "o", "n", "s">>) = {1}
      /\ PartsNamed(link.form, <<"m", "a", "p">>) = {2}
      /\ FileParts(link.form) = 3..Len(link.form)
      /\ FileParts(link.form) # {}
      /\ \A i \in FileParts(link.form) :
           /\ \A m \in PartsNamed(link.form, <<"m", "a", "p">>) : m < i
           /\ link.form[i].name = DecStr(i - 2)
      /\ \A i, j \in FileParts(link.form) :
           i < j => \E m, n \in 1..Len(link.form) :
                      /\ m < n
                      /\ link.form[i].name = DecStr(m)
                      /\ link.form[j].name = DecStr(n)

\* The fetch of a multipart request was started whose form holds a File part
\* followed by a Blob part.
C24_Witness ==
    /\ link.phase = "fetching"
    /\ Len(link.form) = 4
    /\ link.form[3].value.t = "file"
    /\ link.form[4].value.t = "blob"

-----------------------------------------------------------------------------
\* The fetch of subscription s has not settled.
Unsettled(s) == link.subs[s].fetch # "settled"

\* Subscription s was just unsubscribed from.
JustUnsubscribed(s) == link.last = [op |-> "unsubscribe", sub |-> s]

\* Unsubscribing from an unsettled subscription leaves the signal its fetch
\* was given aborted.
UnsubscribeAbortsFetchSignal ==
    \A s \in Subs :
        JustUnsubscribed(s) /\ Unsettled(s) /\ link.options.AbortController =>
            /\ link.fetchSignal = "controller"
            /\ link.signal.aborted
            /\ FetchSignalAborted(link)

(* C25: when AbortController is available, tearing down (unsubscribing) a
   subscription to a multipart request whose fetch has not settled yet aborts
   the signal that was passed to that fetch. *)
C25_UnsubscribeAbortsFetchSignal == UnsubscribeAbortsFetchSignal

\* The same while the Observable was subscribed to once.
C25_HoldsForOneSubscription ==
    Len(link.subs) <= 1 => UnsubscribeAbortsFetchSignal

-----------------------------------------------------------------------------
\* Subscription s is open and its fetch has not settled.
InFlight(l, s) == l.subs[s].fetch # "settled" /\ ~l.subs[s].closed

\* The external signal was just aborted.
JustAbortedExternally == link.last.op = "externalAbort"

\* With an external signal and AbortController, the fetch is given the signal
\* of the controller of the link, and an abort of the external signal while a
\* subscription is in flight leaves that controller aborted with the reason of
\* the external signal.
ExternalAbortReachesController ==
    Multipart /\ link.options.AbortController /\ link.options.signal # "none" =>
        /\ link.fetchSignal = "controller"
        /\ JustAbortedExternally /\ (\E s \in Subs : InFlight(link, s)) =>
             /\ link.signal.aborted
             /\ link.signal.reason = link.external.reason
             /\ link.external.reason \in Reasons

(* C26: when the fetch options carry an external abort signal and
   AbortController is available, the fetch receives the signal of the link's
   own controller instead, and an abort of the external signal while the
   request is unsettled aborts that controller with the reason of the
   external signal. *)
C26_ExternalAbortReachesController == ExternalAbortReachesController

\* The same while the Observable was subscribed to once.
C26_HoldsForOneSubscription ==
    Len(link.subs) <= 1 => ExternalAbortReachesController

-----------------------------------------------------------------------------
\* The fetch of some subscription has settled: its result or its error was
\* handled.
AnySettled(l) == \E s \in 1..Len(l.subs) : l.subs[s].fetch = "settled"

\* Cleanup has run: the controller reference is dropped and no listener is
\* left on the external signal or on the signal of the controller.
CleanupRan(l) ==
    /\ ~l.controller
    /\ ~l.external.listener
    /\ ~l.signal.listener
    /\ l.cleanupController \in {"basic", "noop"}

\* A fetch has settled or the controller has aborted.
SettledOrAborted == AnySettled(link) \/ link.signal.aborted

\* A fetch has settled, or the controller has aborted where the fetch options
\* carried an external signal.
SettledOrAbortedWithExternal ==
    AnySettled(link) \/ (link.external.present /\ link.signal.aborted)

(* C27 as claimed: once a multipart request has settled (result delivered,
   or error) or its controller has aborted, cleanup has run: the listener on
   the external signal is removed and the controller reference is dropped, so
   a later abort of the external signal or a later unsubscribe never calls
   abort on the controller; running cleanup a second time changes nothing. *)
C27_CleanupOnSettleOrAbort ==
    /\ [](SettledOrAborted => CleanupRan(link))
    /\ [][SettledOrAborted => link'.abortCalls = link.abortCalls]_vars
    /\ [](SettledOrAborted => CleanupController(link) = link)

(* C27 amended: once the fetch of a subscription has settled, or, where the
   fetch options carried an external signal, once the controller has
   aborted, cleanup has run and stays run: no listener is left on the
   external signal, the controller reference is dropped, and no later abort
   of the external signal or unsubscribe calls abort on the controller;
   running cleanup again changes nothing. *)
C27_CleanupOnSettleOrExternalAbort ==
    /\ [](SettledOrAbortedWithExternal => CleanupRan(link))
    /\ [][SettledOrAbortedWithExternal => link'.abortCalls = link.abortCalls]_vars
    /\ [](SettledOrAbortedWithExternal => CleanupController(link) = link)

\* A subscription received its result; later the external signal was aborted
\* and no abort was ever called on the controller.
C27_Witness ==
    /\ link.options = [AbortController |-> TRUE, signal |-> "idle"]
    /\ \E s \in Subs : link.subs[s].received = <<"next", "complete">>
    /\ JustAbortedExternally
    /\ link.abortCalls = <<>>

-----------------------------------------------------------------------------
\* What an observer may have received: nothing, a result then completion, or
\* an error.
Outcomes == {<<"next", "complete">>, <<"error">>}

\* Every observer received nothing or one outcome, a result only for a
\* response that was stored on the context and whose fetch has settled, and
\* nothing before its fetch settled.
AtMostOneOutcome ==
    \A s \in Subs :
        /\ link.subs[s].received \in Outcomes \cup {<<>>}
        /\ link.subs[s].received # <<>> =>
             link.subs[s].fetch = "settled" /\ link.subs[s].closed
        /\ link.subs[s].received = <<"next", "complete">> =>
             link.subs[s].stored /\ link.context \in Subs

\* What was delivered to an observer is never changed or added to.
DeliveredOnce ==
    \A s \in Subs :
        link.subs[s].received # <<>> => link'.subs[s].received = link.subs[s].received

(* C28 as claimed: for each subscription to a multipart request the observer
   receives exactly one outcome: one result followed by completion (after the
   response was stored on the operation context and checked), or one error
   when the fetch rejects or the response check fails; an error is never
   delivered after a result, and nothing after completion or error. *)
C28_ExactlyOneOutcome ==
    /\ [](AtMostOneOutcome)
    /\ [][DeliveredOnce]_vars
    /\ [](\A s \in Subs : link.subs[s].fetch = "settled" =>
                               link.subs[s].received \in Outcomes)

(* C28 amended: the observer of a subscription receives at most one outcome,
   and exactly one once the fetch has settled unless the subscription was
   unsubscribed from before: one result followed by completion (after the
   response was stored on the operation context and checked), or one error
   when the fetch rejects or the response check fails; an error is never
   delivered after a result, nothing after completion or error, and nothing
   at all to a subscription that was unsubscribed from. *)
C28_OneOutcomeUnlessUnsubscribed ==
    /\ [](AtMostOneOutcome)
    /\ [][DeliveredOnce]_vars
    /\ [](\A s \in Subs :
            /\ link.subs[s].fetch = "settled" /\ ~link.subs[s].unsubscribed =>
                 link.subs[s].received \in Outcomes
            /\ link.subs[s].unsubscribed => link.subs[s].received = <<>>)

\* Of two subscriptions, one received its result and completion, the other
\* was unsubscribed from and its fetch then rejected.
C28_Witness ==
    /\ Len(link.subs) = 2
    /\ link.subs[1].received = <<"next", "complete">>
    /\ link.subs[2].unsubscribed
    /\ link.subs[2].fetch = "settled"
    /\ link.last = [op |-> "error", sub |-> 2]

-----------------------------------------------------------------------------
\* The step unsubscribes from subscription s or settles its fetch.
ClosesOrSettles(s) ==
    /\ link'.last # link.last
    /\ link'.last.sub = s
    /\ link'.last.op \in {"unsubscribe", "result", "error"}

\* Unsubscribing from subscription t would abort the signal of its fetch.
CanAbortOwnFetch(l, t) ==
    /\ l.fetchSignal = "controller"
    /\ FetchSignalAborted(Teardown(l, t))

\* A step of one subscription leaves the fetch of every other subscription
\* that is in flight unaborted, and able to be aborted by its own unsubscribe.
NoInterference ==
    \A s, t \in Subs :
        s # t /\ ClosesOrSettles(s) /\ InFlight(link, t) =>
            /\ FetchSignalAborted(link') = FetchSignalAborted(link)
            /\ CanAbortOwnFetch(link, t) => CanAbortOwnFetch(link', t)

(* C29: subscriptions to the Observable returned by one request call do not
   interfere: unsubscribing from, or settling of, one subscription never
   aborts the in-flight fetch of another subscription to the same Observable
   and never removes the other subscription's ability to abort its own fetch
   on unsubscribe. *)
C29_SubscriptionsDoNotInterfere == [][NoInterference]_vars

====
